---- MODULE Spec2Model ----
(***************************************************************************)
(* Model of the shttpfs server (src/shttpfs3/server.py): the commit        *)
(* coordination protocol (begin_commit, push_file, delete_files, commit),  *)
(* its two locks (the flock taken by lock_access and the timed user lock   *)
(* kept in user_file) and the session check every handler starts with.     *)
(* versioned_storage is not part of the sources at hand; its operations    *)
(* are modelled from section 4.3 of the specification.                     *)
(***************************************************************************)
EXTENDS Integers, Sequences, FiniteSets, TLC

(***************************************************************************)
(* Bounds of the model.                                                    *)
(***************************************************************************)
MaxTime == 45
TickStep == 15
MaxRev == 1
MaxFiles == 2

(***************************************************************************)
(* Program constants.                                                      *)
(***************************************************************************)
user_lock_duration == 30
extend_session_duration == 7200

lock_fail_msg == "Could not acquire exclusive lock"
no_such_repo_msg == "The requested repository does not exist"
(* Variant of user_auth_fail_msg with the text of no_such_repo_msg. *)
user_auth_fail_msg_no_repo == "The requested repository does not exist"
user_auth_fail_msg == "Could not authenticate user"
conflict_msg == "Please resolve conflicts"
need_to_update_msg == "Please update to latest revision"
no_active_commit_msg == "A commit must be started before attempting this operation."

(***************************************************************************)
(* The world of the model: two clients, each with its own address and its  *)
(* own session, one repository, one configured user.                       *)
(***************************************************************************)
Clients == {"c1", "c2"}
NoClient == "none"
IpOf(c) == IF c = "c1" THEN "10.0.0.1" ELSE "10.0.0.2"
TokenText(c) == IF c = "c1" THEN "tok1" ELSE "tok2"
Repository == "repo"
Addresses == {"10.0.0.1", "10.0.0.2"}
OtherRepository == "docs"
UnknownRepository == "nowhere"
RepositoryNames == {Repository, OtherRepository, UnknownRepository}
UserName == "test"
OtherUserName == "guest"
UnknownUserName == "nobody"
UserNames == {UserName, OtherUserName, UnknownUserName}
(* The public key of a user is modelled by the user's name. *)
config == [repositories |-> {Repository, OtherRepository},
           users |-> [u \in {UserName, OtherUserName} |->
                        [public_key |-> u,
                         uses_repositories |-> IF u = UserName THEN {Repository}
                                               ELSE {OtherRepository}]]]

(* Paths are sequences of characters: /..a, whose segments are "" and     *)
(* "..a", and a/.\b, whose segments are "a", "." and "b".                 *)
GoodPaths == {<<"/", ".", ".", "a">>}
BadPaths == {<<"a", "/", ".", "\\", "b">>}
OtherPaths == {<<"/", "b">>}
AllPaths == GoodPaths \cup BadPaths \cup OtherPaths
Contents == {"v1"}
NoContent == "absent"

(***************************************************************************)
(* Python values: a str and a bytes object never compare equal, whatever   *)
(* their text; SQLite compares a BLOB and a TEXT value the same way.       *)
(***************************************************************************)
Str(x) == <<"str", x>>
Bytes(x) == <<"bytes", x>>
encode(s) == <<"bytes", s[2]>>
decode(b) == <<"str", b[2]>>
PyEq(a, b) == a = b
HeaderToken(c) == encode(Str(TokenText(c)))
None == <<"None", "">>

VARIABLES tokens, pending, exchange, minted, issued
VARIABLES now, user_file, flock, head, commits, staging, session_tokens,
          pc, req, resp, owner, based, race
(* new_user_file: the file update_user_lock writes before it renames it. *)
VARIABLE new_user_file
(* request_body: the read_body object of a request whose body is read in   *)
(* chunks, with the socket behind it.  The handlers followed step by step  *)
(* take their parameters from req and leave it alone.                      *)
VARIABLE request_body

auth_vars == <<tokens, pending, exchange, minted, issued, request_body>>
commit_vars == <<user_file, flock, head, commits, staging, pc, req, resp, owner, based, race,
                 new_user_file, request_body>>
vars == <<now, user_file, flock, head, commits, staging, session_tokens,
          pc, req, resp, owner, based, race,
         tokens, pending, exchange, minted, issued, new_user_file, request_body>>

(***************************************************************************)
(* Responses (fail, success) and requests.  A request record carries the   *)
(* headers and body of every endpoint; an endpoint reads only its own.     *)
(***************************************************************************)
(* sorted_changes of a response that carries none. *)
NoChanges == [conflict |-> <<>>, pull |-> <<>>, push |-> <<>>]
NoResponce == [status |-> "none", msg |-> "", head |-> 0, op |-> "none", body |-> <<>>,
               sorted_changes |-> NoChanges]
Responce(r, status, msg, h) ==
    [status |-> status, msg |-> msg, head |-> h, op |-> r.op, body |-> <<>>,
     sorted_changes |-> NoChanges]
fail(r, msg) == Responce(r, "fail", msg, 0)
success(r, h) == Responce(r, "ok", "", h)
(* An exception no handler catches: the connection is closed, no response. *)
crashed(r) == Responce(r, "error", "", 0)

(* A header the request does not carry: reading it raises KeyError. *)
NoHeader == "missing"
NoRequest == [op |-> "none", previous_revision |-> 0, path |-> <<>>,
              content |-> NoContent, files |-> <<>>, mode |-> "", version_id |-> 0,
              client_changes |-> <<>>, conflict_resolutions |-> <<>>]
BeginCommitRequests ==
    {[NoRequest EXCEPT !.op = "begin_commit", !.previous_revision = r] : r \in 0..MaxRev}
PushFileRequests ==
    {[NoRequest EXCEPT !.op = "push_file", !.path = p, !.content = v] :
        p \in GoodPaths \cup BadPaths, v \in Contents}
FileLists == UNION {[1..n -> GoodPaths] : n \in 0..MaxFiles}
DeleteFilesRequests ==
    {[NoRequest EXCEPT !.op = "delete_files", !.files = fs] : fs \in FileLists}
CommitRequests ==
    {[NoRequest EXCEPT !.op = "commit", !.mode = m] : m \in {"commit", "rollback"}}
Requests == BeginCommitRequests \cup PushFileRequests \cup DeleteFilesRequests
            \cup CommitRequests
(* One request of each endpoint, for the requests that are refused before  *)
(* the handler reads anything but the session token.                       *)
ForeignRequests ==
    {[NoRequest EXCEPT !.op = "push_file", !.path = CHOOSE p \in GoodPaths : TRUE,
                       !.content = CHOOSE v \in Contents : TRUE],
     [NoRequest EXCEPT !.op = "delete_files"],
     [NoRequest EXCEPT !.op = "commit", !.mode = "rollback"]}

(***************************************************************************)
(* The user lock file.  kind is "absent" (no file), "empty" (cleared),     *)
(* "malformed" (content json.loads rejects) or "record".                   *)
(***************************************************************************)
NoUserFile == [kind |-> "absent", session_token |-> Str(""), expires |-> 0]
EmptyUserFile == [kind |-> "empty", session_token |-> Str(""), expires |-> 0]
UserLockRecord(tok, e) == [kind |-> "record", session_token |-> tok, expires |-> e]

(* Variant of update_user_lock that never clears the file. *)
update_user_lock_keeps(session_token, t) ==
    UserLockRecord(decode(session_token), t + user_lock_duration)
(* Variant of update_user_lock that grants half the duration. *)
update_user_lock_short(session_token, t) ==
    IF session_token = None THEN EmptyUserFile
    ELSE UserLockRecord(decode(session_token), t + user_lock_duration \div 2)

(* update_user_lock(repository_path, session_token): None clears the file. *)
update_user_lock(session_token, t) ==
    IF session_token = None THEN EmptyUserFile
    ELSE UserLockRecord(decode(session_token), t + user_lock_duration)

(* Variants of can_aquire_user_lock: the expiry test made inclusive, and  *)
(* the expiry test left out.                                              *)
can_aquire_user_lock_inclusive(uf, session_token, t) ==
    \/ uf.kind # "record"
    \/ uf.expires <= t
    \/ PyEq(uf.session_token, session_token)
can_aquire_user_lock_no_expiry(uf, session_token, t) ==
    \/ uf.kind # "record"
    \/ PyEq(uf.session_token, session_token)

(* can_aquire_user_lock: the stored token is a str, the parameter bytes. *)
can_aquire_user_lock(uf, session_token, t) ==
    IF uf.kind = "absent" THEN TRUE
    ELSE IF uf.kind = "empty" THEN TRUE
    ELSE IF uf.kind = "malformed" THEN TRUE
    ELSE IF uf.expires < t THEN TRUE
    ELSE IF PyEq(uf.session_token, session_token) THEN TRUE
    ELSE FALSE

(* read_user_lock: None for a missing, an empty or an unparseable file. *)
read_user_lock(uf) == IF uf.kind = "record" THEN uf.session_token ELSE None

(* varify_user_lock opens the file unguarded: a missing file raises IOError. *)
varify_user_lock_raises(uf) == uf.kind = "absent"
(* Variant of varify_user_lock that does not compare the tokens. *)
varify_user_lock_any(uf, session_token, t) ==
    IF uf.kind # "record" THEN FALSE ELSE t < uf.expires
(* varify_user_lock: the stored token, encoded, against the header's. *)
varify_user_lock(uf, session_token, t) ==
    IF uf.kind # "record" THEN FALSE
    ELSE PyEq(encode(uf.session_token), session_token) /\ t < uf.expires

(***************************************************************************)
(* have_authenticated_user: garbage collection of the session rows (the    *)
(* row of the user lock's holder is meant to be spared), lookup by token   *)
(* and address, access check, refresh of the row.  The rows hold the token *)
(* as authenticate stored it, a bytes object.                              *)
(***************************************************************************)
SessionRow(tok, e, ip, user) == [token |-> tok, expires |-> e, ip |-> ip, username |-> user]
(* Variant of the garbage collection that compares the text of the tokens  *)
(* and so spares the row of the user lock's holder.                        *)
gc_session_tokens_spares_holder(rows, uf, t) ==
    LET active_commit == read_user_lock(uf)
    IN  {r \in rows : ~(r.expires < t /\ decode(r.token) # active_commit)}
(* delete from session_tokens where expires < ? [and token != ?] *)
gc_session_tokens(rows, uf, t) ==
    LET active_commit == read_user_lock(uf)
    IN  IF active_commit # None
        THEN {r \in rows : ~(r.expires < t /\ r.token # active_commit)}
        ELSE {r \in rows : ~(r.expires < t)}
(* Variant of the session lookup that does not compare the address. *)
session_lookup_any_ip(rows, session_token, client_ip) ==
    {r \in rows : r.token = session_token}
(* select * from session_tokens where token = ? and ip = ? *)
session_lookup(rows, session_token, client_ip) ==
    {r \in rows : r.token = session_token /\ r.ip = client_ip}
session_accepted(rows, repository, session_token, client_ip) ==
    /\ repository \in config.repositories
    /\ \E r \in session_lookup(rows, session_token, client_ip) :
          repository \in config.users[r.username].uses_repositories
have_authenticated_user(rows, uf, client_ip, repository, session_token, t) ==
    IF repository \notin config.repositories THEN rows
    ELSE LET kept == gc_session_tokens(rows, uf, t)
         IN  IF session_accepted(kept, repository, session_token, client_ip)
             THEN {IF r.token = session_token /\ r.ip = client_ip
                   THEN [r EXCEPT !.expires = t + extend_session_duration]
                   ELSE r : r \in kept}
             ELSE kept

(***************************************************************************)
(* versioned_storage, after section 4.3 of the specification.              *)
(***************************************************************************)
EmptyManifest == [p \in AllPaths |-> NoContent]
IdleStaging == [active |-> FALSE, base_revision |-> 0, puts |-> EmptyManifest, deletes |-> {}]
ManifestOf(cs, r) == IF r = 0 THEN EmptyManifest ELSE cs[r].manifest
have_active_commit(st) == st.active
(* begin is specified from IDLE, where nothing is staged. *)
storage_begin(st, h) == [st EXCEPT !.active = TRUE, !.base_revision = h]
storage_rollback(st) == IdleStaging
fs_put_from_file(st, path, content) ==
    [st EXCEPT !.puts[path] = content, !.deletes = @ \ {path}]
fs_delete(st, path) ==
    [st EXCEPT !.deletes = @ \cup {path}, !.puts[path] = NoContent]
RECURSIVE fs_delete_all(_, _, _)
fs_delete_all(st, files, n) ==
    IF n = 0 THEN st ELSE fs_delete(fs_delete_all(st, files, n - 1), files[n])
(* Variant of the new manifest that applies the puts and not the deletes. *)
NewManifest_keeps_deleted(cs, st) ==
    [p \in AllPaths |->
        IF st.puts[p] # NoContent THEN st.puts[p]
        ELSE ManifestOf(cs, st.base_revision)[p]]
NewManifest(cs, st) ==
    [p \in AllPaths |->
        IF p \in st.deletes THEN NoContent
        ELSE IF st.puts[p] # NoContent THEN st.puts[p]
        ELSE ManifestOf(cs, st.base_revision)[p]]
storage_commit(cs, st) ==
    Append(cs, [parent |-> st.base_revision, manifest |-> NewManifest(cs, st)])

(* re.split(r'\\|/', file_path): the path, a sequence of characters, is cut  *)
(* at every slash and backslash; item is the segment read so far.          *)
RECURSIVE re_split(_, _)
re_split(path, item) ==
    IF path = <<>> THEN <<item>>
    ELSE IF Head(path) \in {"/", "\\"} THEN <<item>> \o re_split(Tail(path), <<>>)
    ELSE re_split(Tail(path), Append(item, Head(path)))

(* Variant of the traversal check that looks at the first segment only. *)
has_traversal_first(path) == re_split(path, <<>>)[1] \in {<<".", ".">>, <<".">>}
(* The traversal check of push_file: any segment equal to '..' or '.'. *)
has_traversal(path) ==
    LET items == re_split(path, <<>>)
    IN  \E i \in 1..Len(items) : items[i] \in {<<".", ".">>, <<".">>}

(***************************************************************************)
(* The last request to begin_auth, authenticate or the prologue of another *)
(* endpoint, and its answer: the endpoint, request.remote_addr, the        *)
(* repository, user, auth_token and session_token headers, and the status, *)
(* msg and session_token of the response.                                  *)
(***************************************************************************)
NoExchange == [op |-> "none", ip |-> "", repository |-> "", user |-> "",
               auth_token |-> None, session_token |-> None,
               status |-> "none", msg |-> "", granted |-> None]

(***************************************************************************)
(* race is a history variable.  It is switched on when a begin_commit is   *)
(* received while the other client's begin_commit is in flight (done = 0), *)
(* keeps the response of the first of the two to end (done = 1) and of the *)
(* second (done = 2), and is reset by the next request received.  fresh:   *)
(* both carried previous_revision = head; free: the user lock was absent,  *)
(* empty or expired when the race began; within: the second ended no later *)
(* than user_lock_duration after the first.                                *)
(***************************************************************************)
NoRace == [done |-> -1, fresh |-> FALSE, free |-> FALSE, within |-> FALSE, at |-> 0,
           first |-> [status |-> "none", msg |-> ""],
           second |-> [status |-> "none", msg |-> ""]]

(* No request body is being read. *)
NoBody == [body_length |-> 0, body_partial |-> <<>>, have_read |-> 0,
           socket |-> <<>>, retbuffer |-> <<>>, returned_none |-> FALSE,
           tmp_file |-> <<>>]

(***************************************************************************)
(* The server starts on a repository directory that holds the revisions cs *)
(* (no user_file, no staging) with both clients holding a session minted   *)
(* at time 0.  Initial state: an empty repository, head "root", written 0. *)
(***************************************************************************)
Started(cs) ==
    /\ now = 0
    /\ user_file = NoUserFile
    /\ new_user_file = NoUserFile
    /\ request_body = NoBody
    /\ flock = NoClient
    /\ head = Len(cs)
    /\ commits = cs
    /\ staging = IdleStaging
    /\ session_tokens =
          [r \in config.repositories |->
             IF r = Repository
             THEN {SessionRow(HeaderToken(c), extend_session_duration, IpOf(c), UserName) :
                     c \in Clients}
             ELSE {}]
    /\ tokens = [r \in config.repositories |-> {}]
    /\ pending = [th \in {"t1", "t2"} |-> [ip |-> "", repository |-> "", user |-> "", auth_token |-> None]]
    /\ exchange = NoExchange
    /\ minted = <<>>
    /\ issued = 0
    /\ pc = [c \in Clients |-> "idle"]
    /\ req = [c \in Clients |-> NoRequest]
    /\ resp = [c \in Clients |-> NoResponce]
    /\ owner = NoClient
    /\ based = 0
    /\ race = NoRace

Init == Started(<<>>)

(* Time passes. *)
Tick ==
    /\ now + TickStep <= MaxTime
    /\ now' = now + TickStep
    /\ UNCHANGED <<user_file, flock, head, commits, staging, session_tokens,
                   pc, req, resp, owner, based, race, new_user_file>>
    /\ UNCHANGED auth_vars

(***************************************************************************)
(* A request arrives: every handler first calls have_authenticated_user    *)
(* and answers user_auth_fail when it returns False.                       *)
(***************************************************************************)
InFlight(c) == pc[c] # "idle"
Racing(c, r) ==
    /\ r.op = "begin_commit"
    /\ \E d \in Clients \ {c} : InFlight(d) /\ req[d].op = "begin_commit"
Prologue(c, r, client_ip, repository) ==
    /\ pc[c] = "idle"
    /\ session_tokens' = [session_tokens EXCEPT ![repository] =
                             have_authenticated_user(@, user_file, client_ip,
                                                     repository, HeaderToken(c), now)]
    /\ IF session_accepted(gc_session_tokens(session_tokens[repository], user_file, now),
                           repository, HeaderToken(c), client_ip)
       THEN /\ pc' = [pc EXCEPT ![c] = "lock_access"]
            /\ req' = [req EXCEPT ![c] = r]
            /\ resp' = [resp EXCEPT ![c] = NoResponce]
            /\ race' = IF Racing(c, r)
                       THEN [NoRace EXCEPT !.done = 0,
                                !.fresh = \A d \in Clients : req'[d].previous_revision = head,
                                !.free = user_file.kind # "record" \/ user_file.expires < now]
                       ELSE NoRace
       ELSE /\ resp' = [resp EXCEPT ![c] = fail(r, user_auth_fail_msg)]
            /\ race' = NoRace
            /\ UNCHANGED <<pc, req>>
    /\ UNCHANGED <<now, user_file, flock, head, commits, staging, owner, based, new_user_file>>
    /\ UNCHANGED auth_vars

(* The model publishes at most max revisions: no further publishing commit  *)
(* is received once they exist.                                            *)
WithinRevisions(r, max) == r.op = "commit" /\ r.mode = "commit" => Len(commits) < max

(* A request of client c from its own address for its repository ... *)
Receive(c, r) == Prologue(c, r, IpOf(c), Repository)
(* ... and one that presents c's session token from another address.       *)
ReceiveFrom(c, r, client_ip) ==
    /\ client_ip # IpOf(c)
    /\ Prologue(c, r, client_ip, Repository)

(***************************************************************************)
(* lock_access: the flock is taken without blocking; when another handler  *)
(* holds it the request fails at once.                                     *)
(***************************************************************************)
Finish(c, r) ==
    /\ pc' = [pc EXCEPT ![c] = "idle"]
    /\ req' = [req EXCEPT ![c] = NoRequest]
    /\ resp' = [resp EXCEPT ![c] = r]
    /\ race' = IF race.done = 0
               THEN [race EXCEPT !.done = 1, !.at = now,
                                 !.first = [status |-> r.status, msg |-> r.msg]]
               ELSE IF race.done = 1
               THEN [race EXCEPT !.done = 2, !.at = 0,
                                 !.within = now <= race.at + user_lock_duration,
                                 !.second = [status |-> r.status, msg |-> r.msg]]
               ELSE race
(* Variant of lock_access that enters the callback whoever holds the flock. *)
lock_access_shared(c) ==
    /\ pc[c] = "lock_access"
    /\ flock' = c
    /\ pc' = [pc EXCEPT ![c] = "callback"]
    /\ UNCHANGED <<req, resp, race>>
    /\ UNCHANGED <<now, user_file, head, commits, staging, session_tokens, owner, based,
                   new_user_file>>
    /\ UNCHANGED auth_vars
lock_access(c) ==
    /\ pc[c] = "lock_access"
    /\ IF flock = NoClient
       THEN /\ flock' = c
            /\ pc' = [pc EXCEPT ![c] = "callback"]
            /\ UNCHANGED <<req, resp, race>>
       ELSE /\ Finish(c, fail(req[c], lock_fail_msg))
            /\ UNCHANGED flock
    /\ UNCHANGED <<now, user_file, head, commits, staging, session_tokens, owner, based,
                   new_user_file>>
    /\ UNCHANGED auth_vars

(***************************************************************************)
(* The callbacks run under the flock.  Each ends by releasing it, also     *)
(* when it fails: leaving the with block closes the lock file.  No         *)
(* new_user_file outlives a callback: update_user_lock ends by renaming    *)
(* the file it wrote, and it is the last call before a callback returns    *)
(* success.                                                                *)
(***************************************************************************)
(* Variant in which a callback that ends leaves the flock taken. *)
Unlock_never == UNCHANGED flock /\ new_user_file' = NoUserFile
Unlock == flock' = NoClient /\ new_user_file' = NoUserFile

(* Variants of the revision check: none at all, and only against an older  *)
(* previous_revision.                                                      *)
need_to_update_never(h, previous_revision) == FALSE
need_to_update_older(h, previous_revision) == previous_revision < h
(* begin_commit: get_head() != request.headers["previous_revision"] *)
need_to_update(h, previous_revision) == h # previous_revision

(* Variants of the restart of staging: the rollback alone, and no rollback. *)
restart_staging_rollback_only(st, h) ==
    IF have_active_commit(st) THEN storage_rollback(st) ELSE st
restart_staging_no_rollback(st, h) == storage_begin(st, h)
(* begin_commit: a commit left active is rolled back, then begin(). *)
restart_staging(st, h) ==
    IF have_active_commit(st) THEN storage_begin(storage_rollback(st), h)
    ELSE storage_begin(st, h)

(* begin_commit.with_exclusive_lock *)
begin_commit_callback(c) ==
    /\ pc[c] = "callback" /\ req[c].op = "begin_commit"
    /\ Unlock
    /\ IF ~can_aquire_user_lock(user_file, HeaderToken(c), now)
       THEN /\ Finish(c, fail(req[c], lock_fail_msg))
            /\ UNCHANGED <<user_file, staging, owner, based>>
       ELSE IF need_to_update(head, req[c].previous_revision)
       THEN /\ Finish(c, fail(req[c], need_to_update_msg))
            /\ UNCHANGED <<user_file, staging, owner, based>>
       ELSE /\ staging' = restart_staging(staging, head)
            /\ user_file' = update_user_lock(HeaderToken(c), now)
            /\ owner' = c
            /\ based' = req[c].previous_revision
            /\ Finish(c, success(req[c], 0))
    /\ UNCHANGED <<now, head, commits, session_tokens>>
    /\ UNCHANGED auth_vars

(* Variant of the user lock check that refuses only a missing file. *)
lock_refused_file_missing(c) == varify_user_lock_raises(user_file)
(* The user lock check push_file, delete_files and commit start with. *)
lock_refused(c) ==
    \/ varify_user_lock_raises(user_file)
    \/ ~varify_user_lock(user_file, HeaderToken(c), now)

(* push_file.with_exclusive_lock up to the upload of the body ... *)
push_file_check(c) ==
    /\ pc[c] = "callback" /\ req[c].op = "push_file"
    /\ IF lock_refused(c)
       THEN Unlock /\ Finish(c, fail(req[c], lock_fail_msg))
       ELSE IF ~have_active_commit(staging)
       THEN Unlock /\ Finish(c, fail(req[c], no_active_commit_msg))
       ELSE IF has_traversal(req[c].path)
       THEN Unlock /\ Finish(c, fail(req[c], ""))
       ELSE /\ pc' = [pc EXCEPT ![c] = "upload"]
            /\ UNCHANGED <<flock, req, resp, race, new_user_file>>
    /\ UNCHANGED <<now, user_file, head, commits, staging, session_tokens, owner, based>>
    /\ UNCHANGED auth_vars

(* The attributes of the object the dispatcher hands to a handler as       *)
(* request.body: read_body defines __init__ and __call__ and nothing else. *)
read_body == {"__init__", "__call__"}

(* ... and from there: tmp_file is opened for writing, where an IOError is *)
(* answered by lock_access with lock_fail, and the loop that copies the    *)
(* body starts with request.body.read.  A read_body has no such attribute: *)
(* AttributeError, which nothing catches, so the handler ends without a    *)
(* response before anything is staged or the user lock is refreshed.       *)
push_file_store(c, io_ok) ==
    /\ pc[c] = "upload"
    /\ Unlock
    /\ IF ~io_ok
       THEN /\ Finish(c, fail(req[c], lock_fail_msg))
            /\ UNCHANGED <<user_file, staging>>
       ELSE IF "read" \notin read_body
       THEN /\ Finish(c, crashed(req[c]))
            /\ UNCHANGED <<user_file, staging>>
       ELSE /\ staging' = fs_put_from_file(staging, req[c].path, req[c].content)
            /\ user_file' = update_user_lock(HeaderToken(c), now)
            /\ Finish(c, success(req[c], 0))
    /\ UNCHANGED <<now, head, commits, session_tokens, owner, based>>
    /\ UNCHANGED auth_vars

(* delete_files.with_exclusive_lock: fs_delete raises at entry done + 1    *)
(* when done < len(files); any exception is answered with fail().          *)
delete_files_callback(c, done) ==
    /\ pc[c] = "callback" /\ req[c].op = "delete_files"
    /\ done \in 0..Len(req[c].files)
    /\ Unlock
    /\ IF lock_refused(c)
       THEN /\ done = 0
            /\ Finish(c, fail(req[c], lock_fail_msg))
            /\ UNCHANGED <<user_file, staging>>
       ELSE IF ~have_active_commit(staging)
       THEN /\ done = 0
            /\ Finish(c, fail(req[c], no_active_commit_msg))
            /\ UNCHANGED <<user_file, staging>>
       ELSE /\ staging' = fs_delete_all(staging, req[c].files, done)
            /\ IF done = Len(req[c].files)
               THEN /\ user_file' = update_user_lock(HeaderToken(c), now)
                    /\ Finish(c, success(req[c], 0))
               ELSE /\ Finish(c, fail(req[c], ""))
                    /\ UNCHANGED user_file
    /\ UNCHANGED <<now, head, commits, session_tokens, owner, based>>
    /\ UNCHANGED auth_vars

(* Variant of the mode test that publishes in every mode. *)
publishes_any(mode) == TRUE
(* commit: request.headers['mode'] == 'commit' *)
publishes(mode) == mode = "commit"

(* commit.with_exclusive_lock: mode "commit" publishes, any other mode     *)
(* rolls back; both clear the user lock.                                   *)
commit_callback(c, io_ok) ==
    /\ pc[c] = "callback" /\ req[c].op = "commit"
    /\ Unlock
    /\ IF lock_refused(c)
       THEN /\ io_ok
            /\ Finish(c, fail(req[c], lock_fail_msg))
            /\ UNCHANGED <<user_file, staging, head, commits, owner, based>>
       ELSE IF ~have_active_commit(staging)
       THEN /\ io_ok
            /\ Finish(c, fail(req[c], no_active_commit_msg))
            /\ UNCHANGED <<user_file, staging, head, commits, owner, based>>
       ELSE IF req[c].mode = NoHeader
       THEN /\ io_ok
            /\ Finish(c, crashed(req[c]))
            /\ UNCHANGED <<user_file, staging, head, commits, owner, based>>
       ELSE IF publishes(req[c].mode) /\ ~io_ok
       THEN /\ Finish(c, fail(req[c], lock_fail_msg))
            /\ UNCHANGED <<user_file, staging, head, commits, owner, based>>
       ELSE IF publishes(req[c].mode) /\ staging.base_revision # head
       THEN /\ Finish(c, crashed(req[c]))
            /\ UNCHANGED <<user_file, staging, head, commits, owner, based>>
       ELSE /\ io_ok
            /\ IF publishes(req[c].mode)
               THEN /\ commits' = storage_commit(commits, staging)
                    /\ head' = Len(commits) + 1
               ELSE UNCHANGED <<commits, head>>
            /\ staging' = IdleStaging
            /\ user_file' = update_user_lock(None, now)
            /\ owner' = NoClient
            /\ based' = 0
            /\ Finish(c, success(req[c], IF publishes(req[c].mode) THEN head' ELSE 0))
    /\ UNCHANGED <<now, session_tokens>>
    /\ UNCHANGED auth_vars

Next ==
    \/ Tick
    \/ \E c \in Clients, r \in Requests : WithinRevisions(r, MaxRev) /\ Receive(c, r)
    \/ \E c \in Clients, r \in ForeignRequests, client_ip \in Addresses :
          ReceiveFrom(c, r, client_ip)
    \/ \E c \in Clients : lock_access(c)
    \/ \E c \in Clients : begin_commit_callback(c)
    \/ \E c \in Clients : push_file_check(c)
    \/ \E c \in Clients, io_ok \in BOOLEAN : push_file_store(c, io_ok)
    \/ \E c \in Clients, done \in 0..MaxFiles : delete_files_callback(c, done)
    \/ \E c \in Clients, io_ok \in BOOLEAN : commit_callback(c, io_ok)

Spec == Init /\ [][Next]_vars

TypeOK ==
    /\ now \in 0..MaxTime
    /\ flock \in Clients \cup {NoClient}
    /\ head \in 0..MaxRev
    /\ pc \in [Clients -> {"idle", "lock_access", "callback", "upload"}]
    /\ owner \in Clients \cup {NoClient}

(***************************************************************************)
(* Authentication.  Every repository has its own auth_transient.db with    *)
(* the tables tokens (the challenges begin_auth issued) and session_tokens.*)
(* The handlers run in one thread per connection and authenticate takes no *)
(* lock, so another request can run between its lookup of the challenge    *)
(* and its delete and insert: pending holds, per thread, the authenticate  *)
(* request that has passed its checks and has not yet minted its session.  *)
(***************************************************************************)
MaxChallenges == 1
MaxSessions == 2
AuthMaxTime == 7230
challenge_duration == 30

Threads == {"t1", "t2"}
(* The two addresses are interchangeable: challenges are asked for from    *)
(* the first, every other request comes from either.                       *)
ChallengedAddresses == {"10.0.0.1"}
NoPending == [ip |-> "", repository |-> "", user |-> "", auth_token |-> None]

(* base64.b64encode(pysodium.randombytes(35)): the n-th token issued; the  *)
(* challenge is decoded to a str, the session token is kept as bytes.      *)
AuthToken(n) == decode(Bytes(<<"auth", n>>))
SessionToken(n) == Bytes(<<"session", n>>)
AuthTokens == {AuthToken(n) : n \in 1..MaxChallenges}
SessionTokens == {SessionToken(n) : n \in 1..MaxSessions}

(* A detached signature: who signed, and what.  Verification against the  *)
(* public key of a user succeeds for that user's signature of the message. *)
(* A request is signed with the key of one of the configured users,        *)
(* whichever user it names.                                                *)
Signatures == [by : DOMAIN config.users, over : AuthTokens]
crypto_sign_verify_detached(signature, message, public_key) ==
    signature.by = public_key /\ signature.over = message

NonAuthEndpoints == {"find_changed", "pull_file", "list_versions", "list_changes",
                     "list_files", "begin_commit", "push_file", "delete_files", "commit"}

ChallengeRow(tok, e, ip) == [token |-> tok, expires |-> e, ip |-> ip]
(* gc_tokens: delete from tokens where expires < now *)
gc_tokens(rows, t) == {r \in rows : ~(r.expires < t)}

Answer(op, client_ip, repository, user, auth_token, session_token, status, msg, granted) ==
    [op |-> op, ip |-> client_ip, repository |-> repository, user |-> user,
     auth_token |-> auth_token, session_token |-> session_token,
     status |-> status, msg |-> msg, granted |-> granted]

AuthInit ==
    /\ now = 0
    /\ user_file = NoUserFile
    /\ new_user_file = NoUserFile
    /\ request_body = NoBody
    /\ flock = NoClient
    /\ head = 0
    /\ commits = <<>>
    /\ staging = IdleStaging
    /\ session_tokens = [r \in config.repositories |-> {}]
    /\ pc = [c \in Clients |-> "idle"]
    /\ req = [c \in Clients |-> NoRequest]
    /\ resp = [c \in Clients |-> NoResponce]
    /\ owner = NoClient
    /\ based = 0
    /\ race = NoRace
    /\ tokens = [r \in config.repositories |-> {}]
    /\ pending = [th \in Threads |-> NoPending]
    /\ exchange = NoExchange
    /\ minted = <<>>
    /\ issued = 0

(* Time passes: by the life of a challenge, once in a session period, or   *)
(* by a whole session period.                                              *)
AuthSteps == {challenge_duration, extend_session_duration}
AuthTick(step) ==
    /\ now + step <= AuthMaxTime
    /\ step = challenge_duration => now % extend_session_duration = 0
    /\ now' = now + step
    /\ UNCHANGED <<session_tokens, tokens, pending, exchange, minted, issued>>
    /\ UNCHANGED commit_vars

(* begin_auth *)
begin_auth(client_ip, repository) ==
    /\ IF repository \notin config.repositories
       THEN /\ exchange' = Answer("begin_auth", client_ip, repository, "", None, None,
                                  "fail", no_such_repo_msg, None)
            /\ UNCHANGED <<tokens, issued>>
       ELSE LET auth_token == AuthToken(issued + 1)
            IN  /\ issued < MaxChallenges
                /\ tokens' = [tokens EXCEPT ![repository] =
                                gc_tokens(@, now) \cup
                                {ChallengeRow(auth_token, now + challenge_duration, client_ip)}]
                /\ issued' = issued + 1
                /\ exchange' = Answer("begin_auth", client_ip, repository, "", None, None,
                                      "ok", "", auth_token)
    /\ UNCHANGED <<now, session_tokens, pending, minted>>
    /\ UNCHANGED commit_vars

(* authenticate with a session_token header: resume of a session.  The     *)
(* header is a str and is not encoded before the lookup.                   *)
authenticate_resume(client_ip, repository, session_token) ==
    /\ IF repository \notin config.repositories
       THEN /\ exchange' = Answer("authenticate", client_ip, repository, "", None,
                                  None, "fail", no_such_repo_msg, None)
            /\ UNCHANGED <<tokens, session_tokens>>
       ELSE LET kept == {r \in session_tokens[repository] : ~(r.expires < now)}
                res == {r \in kept : PyEq(r.token, session_token) /\ r.ip = client_ip}
            IN  /\ tokens' = [tokens EXCEPT ![repository] = gc_tokens(@, now)]
                /\ session_tokens' = [session_tokens EXCEPT ![repository] = kept]
                /\ exchange' =
                     IF res # {}
                     THEN Answer("authenticate", client_ip, repository, "", None,
                                 session_token, "ok", "", session_token)
                     ELSE Answer("authenticate", client_ip, repository, "", None,
                                 session_token, "fail", user_auth_fail_msg, None)
    /\ UNCHANGED <<now, pending, minted, issued>>
    /\ UNCHANGED commit_vars

(* Variant of the permission test of authenticate that lets every user in. *)
may_use_any(user, repository) == TRUE
(* repository in config['users'][user]['uses_repositories'] *)
may_use(user, repository) == repository \in config.users[user].uses_repositories

(* Variant of the challenge lookup that does not compare the address. *)
challenge_lookup_any_ip(rows, auth_token, client_ip) == {r \in rows : r.token = auth_token}
(* select * from tokens where token = ? and ip = ? *)
challenge_lookup(rows, auth_token, client_ip) ==
    {r \in rows : r.token = auth_token /\ r.ip = client_ip}

(* Variant of the failure answers of authenticate in which the permission  *)
(* test has a message of its own.                                          *)
authenticate_fail_msg_by_cause(cause) ==
    IF cause = "permission" THEN no_such_repo_msg ELSE user_auth_fail_msg
(* The three places where authenticate gives up on a new session: the      *)
(* except clause (unknown user, signature), the challenge test and the     *)
(* permission test; each returns fail(user_auth_fail_msg).                 *)
authenticate_fail_msg(cause) == user_auth_fail_msg

(* authenticate without a session_token header, up to its last check: the  *)
(* signature, the challenge row, the permission.  Any exception (an        *)
(* unknown user, a signature that does not verify) is answered with        *)
(* user_auth_fail.                                                         *)
authenticate_check(th, client_ip, repository, user, auth_token, signature) ==
    /\ pending[th] = NoPending
    /\ \A t \in Threads : pending[t] = NoPending => th = "t1" \/ t = th
    /\ IF repository \notin config.repositories
       THEN /\ exchange' = Answer("authenticate", client_ip, repository, "", None,
                                  None, "fail", no_such_repo_msg, None)
            /\ UNCHANGED <<tokens, pending>>
       ELSE LET kept == gc_tokens(tokens[repository], now)
                res == challenge_lookup(kept, auth_token, client_ip)
                refused(cause) == Answer("authenticate", client_ip, repository, user,
                                         auth_token, None, "fail",
                                         authenticate_fail_msg(cause), None)
            IN  /\ tokens' = [tokens EXCEPT ![repository] = kept]
                /\ IF user \notin DOMAIN config.users
                   THEN exchange' = refused("exception") /\ UNCHANGED pending
                   ELSE IF ~crypto_sign_verify_detached(signature, auth_token,
                                                        config.users[user].public_key)
                   THEN exchange' = refused("exception") /\ UNCHANGED pending
                   ELSE IF res = {} \/ Cardinality(res) > 1
                   THEN exchange' = refused("challenge") /\ UNCHANGED pending
                   ELSE IF ~may_use(user, repository)
                   THEN exchange' = refused("permission") /\ UNCHANGED pending
                   ELSE /\ Len(minted) + Cardinality({t \in Threads : pending[t] # NoPending})
                             < MaxSessions
                        /\ pending' = [pending EXCEPT ![th] =
                                         [ip |-> client_ip, repository |-> repository,
                                          user |-> user, auth_token |-> auth_token]]
                        /\ UNCHANGED exchange
    /\ UNCHANGED <<now, session_tokens, minted, issued>>
    /\ UNCHANGED commit_vars

(* ... and from there: the challenge row is deleted, the session row       *)
(* inserted and the session token returned.                                *)
authenticate_mint(th) ==
    /\ pending[th] # NoPending
    /\ LET p == pending[th]
           session_token == SessionToken(Len(minted) + 1)
       IN  /\ tokens' = [tokens EXCEPT ![p.repository] = {r \in @ : r.token # p.auth_token}]
           /\ session_tokens' = [session_tokens EXCEPT ![p.repository] =
                                   @ \cup {SessionRow(session_token,
                                                      now + extend_session_duration,
                                                      p.ip, p.user)}]
           /\ minted' = Append(minted, p.auth_token)
           /\ exchange' = Answer("authenticate", p.ip, p.repository, p.user, p.auth_token,
                                 None, "ok", "", session_token)
    /\ pending' = [pending EXCEPT ![th] = NoPending]
    /\ UNCHANGED <<now, issued>>
    /\ UNCHANGED commit_vars

(* What the handlers of an accepted request do to the user lock and to the *)
(* staging area of Repository, the handler run in one piece under the      *)
(* flock: begin_commit (with previous_revision = head), push_file (one     *)
(* file, which ends at request.body.read), delete_files (an empty list),   *)
(* commit (in a mode that rolls back).  The five reading endpoints change  *)
(* neither.                                                                *)
handler_body(op, session_token) ==
    IF op = "begin_commit"
    THEN IF can_aquire_user_lock(user_file, session_token, now)
         THEN /\ staging' = restart_staging(staging, head)
              /\ user_file' = update_user_lock(session_token, now)
         ELSE UNCHANGED <<user_file, staging>>
    ELSE IF op \in {"push_file", "delete_files", "commit"}
    THEN IF \/ varify_user_lock_raises(user_file)
            \/ ~varify_user_lock(user_file, session_token, now)
            \/ ~have_active_commit(staging)
         THEN UNCHANGED <<user_file, staging>>
         ELSE IF op = "push_file"
         THEN IF "read" \notin read_body
              THEN UNCHANGED <<user_file, staging>>
              ELSE /\ staging' = fs_put_from_file(staging, CHOOSE p \in GoodPaths : TRUE,
                                                  CHOOSE v \in Contents : TRUE)
                   /\ user_file' = update_user_lock(session_token, now)
         ELSE IF op = "delete_files"
         THEN /\ staging' = fs_delete_all(staging, <<>>, 0)
              /\ user_file' = update_user_lock(session_token, now)
         ELSE /\ staging' = IdleStaging
              /\ user_file' = update_user_lock(None, now)
    ELSE UNCHANGED <<user_file, staging>>

(* The prologue of every other endpoint: have_authenticated_user, and      *)
(* user_auth_fail when it returns False; user is the username of the row   *)
(* it returns.  The lock file and the staging area followed are those of   *)
(* Repository.                                                             *)
non_auth_request(op, client_ip, repository, session_token) ==
    /\ IF repository \notin config.repositories
       THEN /\ exchange' = Answer(op, client_ip, repository, "", None, None,
                                  "fail", user_auth_fail_msg, None)
            /\ UNCHANGED <<session_tokens, user_file, staging>>
       ELSE LET uf == IF repository = Repository THEN user_file ELSE NoUserFile
                kept == gc_session_tokens(session_tokens[repository], uf, now)
                res == session_lookup(kept, session_token, client_ip)
            IN  /\ session_tokens' = [session_tokens EXCEPT ![repository] =
                                        have_authenticated_user(@, uf, client_ip, repository,
                                                                session_token, now)]
                /\ IF session_accepted(kept, repository, session_token, client_ip)
                   THEN /\ exchange' = Answer(op, client_ip, repository,
                                              (CHOOSE r \in res : TRUE).username, None,
                                              session_token, "accepted", "", None)
                        /\ IF repository = Repository
                           THEN handler_body(op, session_token)
                           ELSE UNCHANGED <<user_file, staging>>
                   ELSE /\ exchange' = Answer(op, client_ip, repository, "", None,
                                              session_token, "fail", user_auth_fail_msg, None)
                        /\ UNCHANGED <<user_file, staging>>
    /\ UNCHANGED <<now, tokens, pending, minted, issued>>
    /\ UNCHANGED <<flock, head, commits, pc, req, resp, owner, based, race, new_user_file,
                   request_body>>

AuthNext ==
    \/ \E step \in AuthSteps : AuthTick(step)
    \/ \E client_ip \in ChallengedAddresses, repository \in RepositoryNames :
          begin_auth(client_ip, repository)
    \/ \E client_ip \in Addresses, repository \in RepositoryNames, s \in SessionTokens :
          authenticate_resume(client_ip, repository, decode(s))
    \/ \E th \in Threads, client_ip \in Addresses, repository \in RepositoryNames,
          user \in UserNames, auth_token \in AuthTokens :
          \E signature \in {g \in Signatures : g.over = auth_token} :
          authenticate_check(th, client_ip, repository, user, auth_token, signature)
    \/ \E th \in Threads : authenticate_mint(th)
    \/ \E op \in NonAuthEndpoints, client_ip \in Addresses, repository \in RepositoryNames,
          s \in SessionTokens :
          non_auth_request(op, client_ip, repository, s)

AuthSpec == AuthInit /\ [][AuthNext]_vars

AuthTypeOK ==
    /\ now \in 0..AuthMaxTime
    /\ issued \in 0..MaxChallenges
    /\ Len(minted) <= MaxSessions
    /\ \A r \in config.repositories : Cardinality(session_tokens[r]) <= MaxSessions

(***************************************************************************)
(* The read endpoints and commit histories of two revisions.  find_changed,*)
(* pull_file, list_versions, list_changes and list_files call              *)
(* have_authenticated_user and then only read the versioned storage: they  *)
(* never call lock_access and never touch user_file.  The storage reads    *)
(* follow sections 4.2 and 4.6 of the specification: a reader resolves     *)
(* head once and reads the immutable revision it names, so a read is one   *)
(* step.  A response lists entries; an entry names a path, its status, its *)
(* content and the revision it was read from.                              *)
(***************************************************************************)
ServeMaxRev == 2
(* Every client sends mutating requests and read requests. *)
Writers == Clients
Readers == Clients

(* The versioned paths in ascending order. *)
PathOrder == <<CHOOSE p \in GoodPaths : TRUE, CHOOSE p \in OtherPaths : TRUE>>
Entry(path, status, content, rev) ==
    [path |-> path, status |-> status, content |-> content, rev |-> rev]

(* get_file_info_from_path resolves against head. *)
get_file_info_from_path(cs, h, path) == Entry(path, "file", ManifestOf(cs, h)[path], h)

(* get_commit_chain: the commit records in head -> root order. *)
RECURSIVE get_commit_chain(_, _)
get_commit_chain(cs, h) ==
    IF h = 0 THEN <<>>
    ELSE <<Entry(<<>>, "commit", NoContent, h)>> \o get_commit_chain(cs, cs[h].parent)

(* get_commit_files: the paths of the manifest of a revision. *)
get_commit_files(cs, R) ==
    LET present(p) == ManifestOf(cs, R)[p] # NoContent
        listed == SelectSeq(PathOrder, present)
    IN  [i \in 1..Len(listed) |-> Entry(listed[i], "file", ManifestOf(cs, R)[listed[i]], R)]

(* get_changes_since(A, B): new for paths in B\A, deleted for paths in     *)
(* A\B, changed for paths whose content differs, in ascending path order.  *)
change_status(a, b) ==
    IF a = NoContent /\ b # NoContent THEN "new"
    ELSE IF a # NoContent /\ b = NoContent THEN "deleted"
    ELSE IF a # b THEN "changed"
    ELSE "same"
get_changes_since(cs, A, B) ==
    LET status(p) == change_status(ManifestOf(cs, A)[p], ManifestOf(cs, B)[p])
        differs(p) == status(p) # "same"
        changed == SelectSeq(PathOrder, differs)
    IN  [i \in 1..Len(changed) |->
            Entry(changed[i], status(changed[i]), ManifestOf(cs, B)[changed[i]], B)]

(* get_commit_changes(R), computed as diff(parent(R), R). *)
get_commit_changes(cs, R) == get_changes_since(cs, cs[R].parent, R)

(* The paths a change set names. *)
ChangedPaths(changes) == {changes[i].path : i \in 1..Len(changes)}
StatusIn(changes, p) ==
    IF p \in ChangedPaths(changes)
    THEN (CHOOSE e \in {changes[i] : i \in 1..Len(changes)} : e.path = p).status
    ELSE "same"

(* Variant of the merge that reports a conflict for no path. *)
merge_client_and_server_changes_no_conflict(server_changes, client_changes) ==
    LET server_only(e) == e.path \notin ChangedPaths(client_changes)
        client_only(e) == e.path \notin ChangedPaths(server_changes)
    IN  [conflict |-> <<>>,
         pull |-> SelectSeq(server_changes, server_only),
         push |-> SelectSeq(client_changes, client_only)]
(* merge_client_and_server_changes, after section 4.6 of the specification:*)
(* a path both sides changed is a conflict unless both deleted it, a path  *)
(* only the server changed is pulled, a path only the client changed is    *)
(* pushed; each list keeps the ascending path order of its change set.     *)
merge_client_and_server_changes(server_changes, client_changes) ==
    LET both_sides(e) ==
            /\ e.path \in ChangedPaths(client_changes)
            /\ ~(e.status = "deleted" /\ StatusIn(client_changes, e.path) = "deleted")
        server_only(e) == e.path \notin ChangedPaths(client_changes)
        client_only(e) == e.path \notin ChangedPaths(server_changes)
    IN  [conflict |-> SelectSeq(server_changes, both_sides),
         pull |-> SelectSeq(server_changes, server_only),
         push |-> SelectSeq(client_changes, client_only)]

(***************************************************************************)
(* The body of a find_changed request: client_changes, the changes of the  *)
(* client's working copy (entries of revision 0, which is no revision),    *)
(* and conflict_resolutions, a list of records {1_path, 4_resolution}.     *)
(* 4_resolution is whatever JSON value the record holds: a list of strings *)
(* or, here, null.                                                         *)
(***************************************************************************)
JsonList(items) == [kind |-> "list", items |-> items]
JsonNull == [kind |-> "null", items |-> <<>>]
ResolutionRecord(path, resolution) == [path_1 |-> path, resolution_4 |-> resolution]

(* len(r['4_resolution']) raises TypeError for a value without a length. *)
resolution_raises(r) == r.resolution_4.kind = "null"
(* len(r['4_resolution']) != 1 or r['4_resolution'][0] not in ['client', 'server'] *)
resolution_malformed(r) ==
    \/ Len(r.resolution_4.items) # 1
    \/ r.resolution_4.items[1] \notin {"client", "server"}

(* The loop over conflict_resolutions: "error" when a record raises before *)
(* any malformed one was met, "fail" when the first record that does not   *)
(* pass is malformed, "ok" when all pass.                                  *)
RECURSIVE check_resolutions(_, _)
check_resolutions(conflict_resolutions, i) ==
    IF i > Len(conflict_resolutions) THEN "ok"
    ELSE IF resolution_raises(conflict_resolutions[i]) THEN "error"
    ELSE IF resolution_malformed(conflict_resolutions[i]) THEN "fail"
    ELSE check_resolutions(conflict_resolutions, i + 1)

(* resolutions[side]: the paths of the records resolved to side. *)
resolutions(conflict_resolutions, side) ==
    {conflict_resolutions[i].path_1 :
        i \in {j \in 1..Len(conflict_resolutions) :
                 conflict_resolutions[j].resolution_4 = JsonList(<<side>>)}}

(* Variants of the two filters that drop the winning side. *)
resolve_client_changes_swapped(conflict_resolutions, client_changes) ==
    LET kept(e) == e.path \notin resolutions(conflict_resolutions, "client")
    IN  SelectSeq(client_changes, kept)
resolve_server_changes_swapped(conflict_resolutions, server_changes) ==
    LET kept(e) == e.path \notin resolutions(conflict_resolutions, "server")
    IN  SelectSeq(server_changes, kept)
(* client_changes without the paths resolved to 'server' ... *)
resolve_client_changes(conflict_resolutions, client_changes) ==
    LET kept(e) == e.path \notin resolutions(conflict_resolutions, "server")
    IN  SelectSeq(client_changes, kept)
(* ... and server_changes without the paths resolved to 'client'. *)
resolve_server_changes(conflict_resolutions, server_changes) ==
    LET kept(e) == e.path \notin resolutions(conflict_resolutions, "client")
    IN  SelectSeq(server_changes, kept)

(* success({}, {'head' : head, 'sorted_changes' : sorted_changes}); body   *)
(* lists what is to be pulled.                                             *)
Sorted(r, h, sorted_changes) ==
    [Responce(r, "ok", "", h) EXCEPT !.body = sorted_changes.pull,
                                     !.sorted_changes = sorted_changes]

(* find_changed after have_authenticated_user: head 'root' is answered     *)
(* before the body is looked at; then the server changes since             *)
(* previous_revision, the resolutions, the merge.                          *)
find_changed(r) ==
    IF head = 0 THEN Sorted(r, 0, NoChanges)
    ELSE LET client_changes == r.client_changes
             server_changes == get_changes_since(commits, r.previous_revision, head)
             checked == check_resolutions(r.conflict_resolutions, 1)
         IN  IF checked = "error" THEN crashed(r)
             ELSE IF checked = "fail" THEN fail(r, conflict_msg)
             ELSE Sorted(r, head, merge_client_and_server_changes(
                     resolve_server_changes(r.conflict_resolutions, server_changes),
                     resolve_client_changes(r.conflict_resolutions, client_changes)))

(* The requests of the read endpoints, for revisions that exist. *)
FindChangedRequests ==
    {[NoRequest EXCEPT !.op = "find_changed", !.previous_revision = r] : r \in 0..ServeMaxRev}
PullFileRequests ==
    {[NoRequest EXCEPT !.op = "pull_file", !.path = p] : p \in GoodPaths \cup OtherPaths}
ListVersionsRequests == {[NoRequest EXCEPT !.op = "list_versions"]}
ListChangesRequests ==
    {[NoRequest EXCEPT !.op = "list_changes", !.version_id = r] : r \in 1..ServeMaxRev}
ListFilesRequests ==
    {[NoRequest EXCEPT !.op = "list_files", !.version_id = r] : r \in 1..ServeMaxRev}
ReadRequests == FindChangedRequests \cup PullFileRequests \cup ListVersionsRequests
                \cup ListChangesRequests \cup ListFilesRequests
ReadEndpoints == {"find_changed", "pull_file", "list_versions", "list_changes", "list_files"}

(* success(headers, body) of a read endpoint. *)
Served(r, h, body) == [success(r, h) EXCEPT !.body = body]

(* The answer of a read endpoint to an authenticated request.  pull_file   *)
(* of a path head does not hold finds no file_info and ends in an          *)
(* exception; find_changed answers head "root" before it reads further.    *)
read_answer(r) ==
    CASE r.op = "find_changed" -> find_changed(r)
      [] r.op = "pull_file" ->
            IF ManifestOf(commits, head)[r.path] = NoContent THEN crashed(r)
            ELSE Served(r, 0, <<get_file_info_from_path(commits, head, r.path)>>)
      [] r.op = "list_versions" -> Served(r, 0, get_commit_chain(commits, head))
      [] r.op = "list_changes" -> Served(r, 0, get_commit_changes(commits, r.version_id))
      [] r.op = "list_files" -> Served(r, 0, get_commit_files(commits, r.version_id))

(* A read request from client c: the prologue, then the answer. *)
read_serve(c, r, answer) ==
    /\ pc[c] = "idle"
    /\ r.previous_revision <= Len(commits) /\ r.version_id <= Len(commits)
    /\ session_tokens' = [session_tokens EXCEPT ![Repository] =
                             have_authenticated_user(@, user_file, IpOf(c),
                                                     Repository, HeaderToken(c), now)]
    /\ resp' = [resp EXCEPT ![c] =
                   IF session_accepted(gc_session_tokens(session_tokens[Repository],
                                                         user_file, now),
                                       Repository, HeaderToken(c), IpOf(c))
                   THEN answer
                   ELSE fail(r, user_auth_fail_msg)]
    /\ UNCHANGED <<now, user_file, flock, head, commits, staging, pc, req, owner, based, race,
                   new_user_file>>
    /\ UNCHANGED auth_vars

(* Variant of the read endpoints that goes through lock_access. *)
read_request_under_lock(c, r) ==
    read_serve(c, r, IF flock # NoClient THEN fail(r, lock_fail_msg) ELSE read_answer(r))
read_request(c, r) == read_serve(c, r, read_answer(r))

(* The requests of a writer: a path that is pushed and deleted, a second    *)
(* path that is only pushed, and a commit request without its mode header. *)
ServeRequests ==
    {[NoRequest EXCEPT !.op = "begin_commit", !.previous_revision = r] : r \in 0..ServeMaxRev}
    \cup {[NoRequest EXCEPT !.op = "push_file", !.path = p, !.content = v] :
             p \in GoodPaths \cup OtherPaths, v \in Contents}
    \cup {[NoRequest EXCEPT !.op = "delete_files", !.files = <<p>>] : p \in GoodPaths}
    \cup {[NoRequest EXCEPT !.op = "commit", !.mode = m] :
             m \in {"commit", "rollback", NoHeader}}

ServeNext ==
    \/ \E c \in Writers, r \in ServeRequests :
          WithinRevisions(r, ServeMaxRev) /\ Receive(c, r)
    \/ \E c \in Readers, r \in ReadRequests : read_request(c, r)
    \/ \E c \in Writers : lock_access(c)
    \/ \E c \in Writers : begin_commit_callback(c)
    \/ \E c \in Writers : push_file_check(c)
    \/ \E c \in Writers, io_ok \in BOOLEAN : push_file_store(c, io_ok)
    \/ \E c \in Writers, done \in 0..1 : delete_files_callback(c, done)
    \/ \E c \in Writers, io_ok \in BOOLEAN : commit_callback(c, io_ok)

(* The repository the server starts on is empty or holds one revision with *)
(* a file at both paths, published before the server was started: the      *)
(* server opens the directory its configuration names and does not create  *)
(* it.                                                                     *)
InitialRevision ==
    [parent |-> 0,
     manifest |-> [p \in AllPaths |->
                     IF p \in GoodPaths \cup OtherPaths THEN CHOOSE v \in Contents : TRUE
                     ELSE NoContent]]
ServeInit == \E cs \in {<<>>, <<InitialRevision>>} : Started(cs)

ServeSpec == ServeInit /\ [][ServeNext]_vars

ServeTypeOK ==
    /\ head \in 0..ServeMaxRev
    /\ Len(commits) = head
    /\ flock \in Writers \cup {NoClient}
    /\ \A i \in 1..Len(commits) : commits[i].parent = i - 1

(***************************************************************************)
(* find_changed with the changes of a working copy and with conflict       *)
(* resolutions.  The server runs on a repository of no, one or two         *)
(* revisions: the first holds a file at both paths, the second is what a   *)
(* commit publishes after delete_files of the first path.  One client      *)
(* sends these requests, the other the read requests of a client that has  *)
(* nothing to report.                                                      *)
(***************************************************************************)
MaxResolutions == 2
ClientStatuses == {"changed", "deleted"}
SecondRevision ==
    storage_commit(<<InitialRevision>>,
                   fs_delete(storage_begin(IdleStaging, 1), CHOOSE p \in GoodPaths : TRUE))[2]
MergeClients == {"c1"}

(* The change sets a working copy can report: per path nothing or a status,*)
(* in ascending path order.                                                *)
ClientChanges ==
    {LET reported(p) == by[p] # "same"
         listed == SelectSeq(PathOrder, reported)
     IN  [i \in 1..Len(listed) |-> Entry(listed[i], by[listed[i]], NoContent, 0)] :
        by \in [GoodPaths \cup OtherPaths -> ClientStatuses \cup {"same"}]}
(* 4_resolution as the client writes it for an open conflict, as the user  *)
(* is to leave it, and values that are neither.                            *)
ResolutionValues ==
    {JsonList(<<"client">>), JsonList(<<"server">>), JsonList(<<"client", "server">>),
     JsonList(<<"other">>), JsonNull}
ResolutionRecords ==
    {ResolutionRecord(p, v) : p \in GoodPaths \cup OtherPaths, v \in ResolutionValues}
ConflictResolutions == UNION {[1..n -> ResolutionRecords] : n \in 0..MaxResolutions}
MergeRequests ==
    {[NoRequest EXCEPT !.op = "find_changed", !.previous_revision = a,
                       !.client_changes = cc, !.conflict_resolutions = rs] :
        a \in 0..ServeMaxRev, cc \in ClientChanges, rs \in ConflictResolutions}

MergeInit == \E cs \in {<<>>, <<InitialRevision>>, <<InitialRevision, SecondRevision>>} : Started(cs)
MergeNext ==
    \/ \E c \in MergeClients, r \in MergeRequests : read_request(c, r)
    \/ \E c \in Readers \ MergeClients, r \in ReadRequests : read_request(c, r)
MergeSpec == MergeInit /\ [][MergeNext]_vars

(***************************************************************************)
(* update_user_lock step by step.  A callback that passed its checks opens *)
(* tmp_path for writing, which creates the file empty, writes the record   *)
(* (all of it at once, or a first part and then the rest), and renames the *)
(* file to real_path; the callback then returns success.  Nothing is       *)
(* written when the lock is cleared.  Meanwhile other requests run their   *)
(* prologue, where have_authenticated_user reads user_file without any     *)
(* lock.  push_file is left out: it never gets as far as update_user_lock. *)
(* Time does not pass while the few bytes are written.                     *)
(***************************************************************************)
real_path == "user_file"
(* Variant of tmp_path: the record is written into user_file itself. *)
tmp_path_in_place == "user_file"
tmp_path == "new_user_file"

(* A file whose content json.loads rejects: the first part of a record. *)
PartialUserFile == [kind |-> "malformed", session_token |-> Str(""), expires |-> 0]

(* What the callback of c hands to update_user_lock: commit clears the     *)
(* file, begin_commit and delete_files write the caller's record.          *)
written_by(c) ==
    IF req[c].op = "commit" THEN update_user_lock(None, now)
    ELSE update_user_lock(HeaderToken(c), now)

(* The checks a callback makes before it calls update_user_lock. *)
reaches_update_user_lock(c) ==
    /\ pc[c] = "callback"
    /\ CASE req[c].op = "begin_commit" ->
                /\ can_aquire_user_lock(user_file, HeaderToken(c), now)
                /\ ~need_to_update(head, req[c].previous_revision)
         [] req[c].op = "delete_files" ->
                ~lock_refused(c) /\ have_active_commit(staging)
         [] req[c].op = "commit" ->
                /\ ~lock_refused(c) /\ have_active_commit(staging)
                /\ req[c].mode # NoHeader
                /\ publishes(req[c].mode) => staging.base_revision = head
         [] OTHER -> FALSE

(* fd2 is the file at tmp_path. *)
write_fd2(content) ==
    /\ new_user_file' = content
    /\ IF tmp_path = real_path THEN user_file' = content ELSE UNCHANGED user_file

(* with open(tmp_path, 'w') as fd2 *)
update_user_lock_open(c) ==
    /\ reaches_update_user_lock(c)
    /\ new_user_file.kind = "absent"
    /\ write_fd2(EmptyUserFile)
    /\ UNCHANGED <<now, flock, head, commits, staging, session_tokens,
                   pc, req, resp, owner, based, race>>
    /\ UNCHANGED auth_vars

(* fd2.write(json.dumps(...)); fd2.flush() *)
update_user_lock_write(c, whole) ==
    /\ pc[c] = "callback"
    /\ new_user_file.kind \in {"empty", "malformed"}
    /\ new_user_file # written_by(c)
    /\ ~whole => new_user_file.kind = "empty"
    /\ write_fd2(IF whole THEN written_by(c) ELSE PartialUserFile)
    /\ UNCHANGED <<now, flock, head, commits, staging, session_tokens,
                   pc, req, resp, owner, based, race>>
    /\ UNCHANGED auth_vars

(* os.rename(tmp_path, real_path), and the callback returns success. *)
update_user_lock_rename(c) ==
    /\ pc[c] = "callback"
    /\ new_user_file = written_by(c)
    /\ \/ begin_commit_callback(c)
       \/ delete_files_callback(c, Len(req[c].files))
       \/ commit_callback(c, TRUE)
    /\ resp'[c].status = "ok"

(* A callback that ends before it calls update_user_lock. *)
callback_without_update(c) ==
    /\ new_user_file.kind = "absent"
    /\ \/ begin_commit_callback(c)
       \/ \E done \in 0..MaxFiles : delete_files_callback(c, done)
       \/ \E io_ok \in BOOLEAN : commit_callback(c, io_ok)
    /\ resp'[c].status # "ok"

LockFileRequests == BeginCommitRequests \cup DeleteFilesRequests \cup CommitRequests
LockFileTick == new_user_file.kind = "absent" /\ Tick

LockFileNext ==
    \/ LockFileTick
    \/ \E c \in Clients, r \in LockFileRequests : WithinRevisions(r, MaxRev) /\ Receive(c, r)
    \/ \E c \in Clients : lock_access(c)
    \/ \E c \in Clients : update_user_lock_open(c)
    \/ \E c \in Clients, whole \in BOOLEAN : update_user_lock_write(c, whole)
    \/ \E c \in Clients : update_user_lock_rename(c)
    \/ \E c \in Clients : callback_without_update(c)

LockFileSpec == Init /\ [][LockFileNext]_vars

(***************************************************************************)
(* read_body (http_server.py): the reader of a request's body.  The bytes  *)
(* of a body of n bytes are numbered 1..n; body_partial is what arrived    *)
(* with the headers, socket what c.recv has still to deliver.  recv(n)     *)
(* returns between 1 and n of the bytes that are left.  The caller writes  *)
(* every chunk it gets to tmp_file and stops at None, as the loop of       *)
(* push_file is meant to (that loop itself calls request.body.read, see    *)
(* push_file_store).                                                       *)
(***************************************************************************)
MaxBody == 6
MaxChunk == 3
(* A call without a length: length = None. *)
NoLength == 0
Min(a, b) == IF a < b THEN a ELSE b
BodyBytes(n) == [i \in 1..n |-> i]
(* s[a:b] of Python, for 0 <= a <= b. *)
Slice(s, a, b) == SubSeq(s, a + 1, Min(b, Len(s)))
(* read_body.__init__ *)
read_body_init(body_length, arrived) ==
    [body_length |-> body_length,
     body_partial |-> SubSeq(BodyBytes(body_length), 1, arrived),
     have_read |-> 0,
     socket |-> SubSeq(BodyBytes(body_length), arrived + 1, body_length),
     retbuffer |-> <<>>,
     returned_none |-> FALSE,
     tmp_file |-> <<>>]
(* self.reader(n): c.recv may return fewer bytes than asked for. *)
recv(rb, n, got) ==
    [rb EXCEPT !.body_partial = @ \o SubSeq(rb.socket, 1, got),
               !.socket = SubSeq(@, got + 1, Len(@))]
(* read_body.__call__, and the caller's f.write(chunk). *)
read_body_call(rb, length, got) ==
    IF rb.have_read >= rb.body_length
    THEN [rb EXCEPT !.retbuffer = <<>>, !.returned_none = TRUE]
    ELSE LET asked == IF length = NoLength THEN rb.body_length ELSE length
             left_to_read == rb.body_length - rb.have_read
             len == Min(asked, left_to_read)
             filled == IF Len(rb.body_partial) < len
                       THEN recv(rb, len - Len(rb.body_partial), got)
                       ELSE rb
             chunk == Slice(filled.body_partial, 0, len)
         IN  [filled EXCEPT !.retbuffer = chunk,
                            !.body_partial = Slice(@, len, Len(@)),
                            !.have_read = @ + len,
                            !.tmp_file = @ \o chunk]
(* What recv can return when __call__ asks it for the bytes it lacks. *)
RecvResults(rb, length) ==
    LET asked == IF length = NoLength THEN rb.body_length ELSE length
        len == Min(asked, rb.body_length - rb.have_read)
        lacking == len - Len(rb.body_partial)
    IN  IF rb.have_read >= rb.body_length \/ lacking <= 0 THEN {0}
        ELSE 1..Min(lacking, Len(rb.socket))
ChunkSizes == (1..MaxChunk) \cup {NoLength}

(* A request with a body arrives: nothing else is going on. *)
ReadBodyInit ==
    /\ now = 0
    /\ user_file = NoUserFile
    /\ new_user_file = NoUserFile
    /\ flock = NoClient
    /\ head = 0
    /\ commits = <<>>
    /\ staging = IdleStaging
    /\ session_tokens = [r \in config.repositories |-> {}]
    /\ tokens = [r \in config.repositories |-> {}]
    /\ pending = [th \in {"t1", "t2"} |-> [ip |-> "", repository |-> "", user |-> "", auth_token |-> None]]
    /\ exchange = NoExchange
    /\ minted = <<>>
    /\ issued = 0
    /\ pc = [c \in Clients |-> "idle"]
    /\ req = [c \in Clients |-> NoRequest]
    /\ resp = [c \in Clients |-> NoResponce]
    /\ owner = NoClient
    /\ based = 0
    /\ race = NoRace
    /\ \E body_length \in 0..MaxBody, arrived \in 0..MaxBody :
          /\ arrived <= body_length
          /\ request_body = read_body_init(body_length, arrived)

(* One call of the reader: chunk = request.body(length); f.write(chunk). *)
read_chunk(length, got) ==
    /\ ~request_body.returned_none
    /\ got \in RecvResults(request_body, length)
    /\ request_body' = read_body_call(request_body, length, got)
    /\ UNCHANGED <<now, user_file, flock, head, commits, staging, session_tokens,
                   pc, req, resp, owner, based, race, new_user_file,
                   tokens, pending, exchange, minted, issued>>

ReadBodyNext == \E length \in ChunkSizes, got \in 0..MaxBody : read_chunk(length, got)

ReadBodySpec == ReadBodyInit /\ [][ReadBodyNext]_vars

(***************************************************************************)
(* An operation that lasts longer than a session.  The comment in          *)
(* have_authenticated_user (lines 265-271) is about a handler that runs so *)
(* long that the session of the client it serves expires before it ends:   *)
(* time passes here by extend_session_duration at once, between requests   *)
(* and between the steps of a handler alike, and by TickStep after that.   *)
(***************************************************************************)
LongMaxTime == 7230
LongTick(step) ==
    /\ now + step <= LongMaxTime
    /\ step = TickStep => now >= extend_session_duration
    /\ now' = now + step
    /\ UNCHANGED <<user_file, flock, head, commits, staging, session_tokens,
                   pc, req, resp, owner, based, race, new_user_file>>
    /\ UNCHANGED auth_vars

LongOperationNext ==
    \/ \E step \in {TickStep, extend_session_duration} : LongTick(step)
    \/ \E c \in Clients, r \in LockFileRequests : WithinRevisions(r, MaxRev) /\ Receive(c, r)
    \/ \E c \in Clients : lock_access(c)
    \/ \E c \in Clients : begin_commit_callback(c)
    \/ \E c \in Clients, done \in 0..MaxFiles : delete_files_callback(c, done)
    \/ \E c \in Clients, io_ok \in BOOLEAN : commit_callback(c, io_ok)

LongOperationSpec == Init /\ [][LongOperationNext]_vars

(***************************************************************************)
(* A lock that is left to expire.  The server is followed from the state   *)
(* in which the begin_commit of one client, and perhaps a delete_files     *)
(* after it, succeeded user_lock_duration ago.  From then on that client   *)
(* sends push_file, delete_files and commit requests but no begin_commit;  *)
(* the other client sends every request.                                   *)
(***************************************************************************)
PreviousHolder == "c1"
Successor == "c2"
LeftToExpire(files) ==
    /\ now = user_lock_duration
    /\ flock = NoClient
    /\ head = 0
    /\ commits = <<>>
    /\ user_file = update_user_lock(HeaderToken(PreviousHolder), 0)
    /\ new_user_file = NoUserFile
    /\ request_body = NoBody
    /\ staging = fs_delete_all(storage_begin(IdleStaging, 0), files, Len(files))
    /\ session_tokens =
          [r \in config.repositories |->
             IF r = Repository
             THEN {SessionRow(HeaderToken(c), extend_session_duration, IpOf(c), UserName) :
                     c \in Clients}
             ELSE {}]
    /\ tokens = [r \in config.repositories |-> {}]
    /\ pending = [th \in {"t1", "t2"} |-> [ip |-> "", repository |-> "", user |-> "", auth_token |-> None]]
    /\ exchange = NoExchange
    /\ minted = <<>>
    /\ issued = 0
    /\ pc = [c \in Clients |-> "idle"]
    /\ req = [c \in Clients |-> NoRequest]
    /\ resp = [c \in Clients |->
                 IF c # PreviousHolder THEN NoResponce
                 ELSE success([NoRequest EXCEPT !.op = IF files = <<>> THEN "begin_commit"
                                                      ELSE "delete_files"], 0)]
    /\ owner = PreviousHolder
    /\ based = 0
    /\ race = NoRace
TakeoverInit == \E files \in FileLists : Len(files) <= 1 /\ LeftToExpire(files)

TakeoverNext ==
    \/ Tick
    \/ \E r \in Requests \ BeginCommitRequests : Receive(PreviousHolder, r)
    \/ \E r \in Requests : WithinRevisions(r, MaxRev) /\ Receive(Successor, r)
    \/ \E c \in Clients : lock_access(c)
    \/ \E c \in Clients : begin_commit_callback(c)
    \/ \E c \in Clients : push_file_check(c)
    \/ \E c \in Clients, io_ok \in BOOLEAN : push_file_store(c, io_ok)
    \/ \E c \in Clients, done \in 0..MaxFiles : delete_files_callback(c, done)
    \/ \E c \in Clients, io_ok \in BOOLEAN : commit_callback(c, io_ok)

TakeoverSpec == TakeoverInit /\ [][TakeoverNext]_vars

(***************************************************************************)
(* Steps of a handler, as seen from outside.                               *)
(***************************************************************************)
Ends(c) == InFlight(c) /\ pc'[c] = "idle"
EndsOk(c, op) == Ends(c) /\ req[c].op = op /\ resp'[c].status = "ok"
EndsWith(c, msg) == Ends(c) /\ resp'[c].status = "fail" /\ resp'[c].msg = msg
Publishes(c) == EndsOk(c, "commit") /\ req[c].mode = "commit"
LockRecordOf(c, t) == UserLockRecord(decode(HeaderToken(c)), t + user_lock_duration)
HeldBy(c) == user_file.kind = "record" /\ user_file.session_token = decode(HeaderToken(c))
HeldByOther(c) == user_file.kind = "record" /\ user_file.session_token # decode(HeaderToken(c))

(***************************************************************************)
(* C1 as stated: of two begin_commit requests of two sessions in flight    *)
(* together, both with previous_revision = head, the second ending within  *)
(* the lock window of the first, exactly one succeeds and the other fails  *)
(* with lock_fail or need_to_update.                                       *)
(***************************************************************************)
LockOrUpdate(r) == r.status = "fail" /\ r.msg \in {lock_fail_msg, need_to_update_msg}
ExactlyOneBegan ==
    \/ race.first.status = "ok" /\ LockOrUpdate(race.second)
    \/ race.second.status = "ok" /\ LockOrUpdate(race.first)
C1_ExactlyOneBeginCommit ==
    race.done = 2 /\ race.fresh /\ race.within => ExactlyOneBegan

(***************************************************************************)
(* C1 as amended: of two such requests at most one succeeds and each that  *)
(* fails, fails with lock_fail or need_to_update; exactly one succeeds     *)
(* when they start while the user lock is free (no file, an empty file or  *)
(* an expired record).                                                     *)
(***************************************************************************)
C1_ExactlyOneFromFreeLock ==
    race.done = 2 /\ race.fresh /\ race.within
    => /\ race.first.status = "ok" \/ LockOrUpdate(race.first)
       /\ race.second.status = "ok" \/ LockOrUpdate(race.second)
       /\ ~(race.first.status = "ok" /\ race.second.status = "ok")
       /\ race.free => ExactlyOneBegan
C1_Witness ==
    /\ race.done = 2 /\ race.fresh /\ race.free /\ race.within
    /\ race.first.status = "ok"
    /\ race.second.msg = lock_fail_msg
    /\ flock = NoClient
    /\ user_file.kind = "record"

(***************************************************************************)
(* C2: while user_file holds the record of another session and that record *)
(* has not expired, no step of a session's handler changes the record or   *)
(* the staging area, and every request of that session that ends, ends     *)
(* with lock_fail; at most one session passes varify_user_lock.            *)
(***************************************************************************)
NotExpired == user_file.kind = "record" /\ now <= user_file.expires
HandlerStep(c) == pc'[c] # pc[c]
C2_OthersLockedOut ==
    /\ [](\A c, d \in Clients :
            /\ varify_user_lock(user_file, HeaderToken(c), now)
            /\ varify_user_lock(user_file, HeaderToken(d), now)
            => c = d)
    /\ [][\A c \in Clients :
            HeldByOther(c) /\ NotExpired /\ HandlerStep(c)
            => /\ user_file' = user_file
               /\ staging' = staging
               /\ head' = head
               /\ Ends(c) => EndsWith(c, lock_fail_msg)]_vars
C2_Witness ==
    \E c \in Clients :
        /\ HeldByOther(c) /\ NotExpired /\ now = user_file.expires
        /\ resp[c].op = "begin_commit" /\ resp[c].msg = lock_fail_msg
        /\ flock = NoClient /\ pc = [d \in Clients |-> "idle"]
        /\ staging.deletes # {}

(***************************************************************************)
(* C3: head changes only in a successful commit request of mode "commit",  *)
(* and there exactly once, to the new revision id the response carries.    *)
(***************************************************************************)
C3_HeadMovesOnlyOnCommit ==
    [][/\ head' # head =>
            \E c \in Clients : /\ Publishes(c)
                               /\ resp'[c].head = head'
                               /\ head' \notin 0..Len(commits)
                               /\ head' \in 1..Len(commits')
       /\ \A c \in Clients : Publishes(c) => head' # head /\ resp'[c].head = head'
       /\ \A c \in Clients : Ends(c) /\ ~Publishes(c) => head' = head /\ commits' = commits]_vars
C3_Witness ==
    \E c, d \in Clients :
        /\ resp[c].op = "commit" /\ resp[c].status = "ok" /\ resp[c].head = head /\ head = 1
        /\ resp[d].op = "commit" /\ resp[d].status = "fail"

(***************************************************************************)
(* C4: when a commit is published head is still the previous_revision its  *)
(* begin_commit checked, the new revision's parent is that head, and the   *)
(* history is one chain back to root.                                      *)
(***************************************************************************)
OneChain == /\ head = Len(commits)
            /\ \A i \in 1..Len(commits) : commits[i].parent = i - 1
C4_HeadPinnedUntilCommit ==
    /\ [](OneChain /\ (have_active_commit(staging) => staging.base_revision = head /\ based = head))
    /\ [][\A c \in Clients :
            Publishes(c) => /\ owner = c
                            /\ based = head
                            /\ commits'[head'].parent = head]_vars
C4_Witness ==
    \E c, d \in Clients :
        /\ head = 1 /\ commits[1].parent = 0
        /\ resp[c].op = "commit" /\ resp[c].head = 1
        /\ resp[d].op = "begin_commit" /\ resp[d].msg = need_to_update_msg

(***************************************************************************)
(* C5 as stated: can_aquire_user_lock is true exactly when the file is     *)
(* absent, empty or unparseable, the record has expired, or the record's   *)
(* token is the requesting session's.                                      *)
(***************************************************************************)
C5_AcquireIff ==
    \A c \in Clients :
        can_aquire_user_lock(user_file, HeaderToken(c), now)
        <=> \/ user_file.kind \in {"absent", "empty", "malformed"}
            \/ user_file.expires < now
            \/ HeldBy(c)

(***************************************************************************)
(* C6: a begin_commit with previous_revision = head that gets the flock    *)
(* while user_file holds another session's record, expired for lack of a   *)
(* request of its holder in the last user_lock_duration seconds, succeeds  *)
(* and takes the lock over.                                                *)
(***************************************************************************)
BeginCommitRuns(c) == pc[c] = "callback" /\ req[c].op = "begin_commit" /\ HandlerStep(c)
C6_ExpiredLockTakenOver ==
    [][\A c \in Clients :
         (/\ BeginCommitRuns(c)
          /\ HeldByOther(c) /\ user_file.expires < now
          /\ req[c].previous_revision = head)
         => /\ EndsOk(c, "begin_commit")
            /\ user_file' = LockRecordOf(c, now)
            /\ owner' = c
            /\ have_active_commit(staging')]_vars
C6_Witness ==
    \E c, d \in Clients :
        /\ c # d /\ owner = c /\ HeldBy(c)
        /\ resp[c].op = "begin_commit" /\ resp[c].status = "ok"
        /\ resp[d].op = "delete_files" /\ resp[d].status = "ok" /\ pc[d] = "idle"

(***************************************************************************)
(* C7: a successful begin_commit leaves an empty staging area pinned to    *)
(* head and owned by the caller; from then on only the owner's push_file   *)
(* and delete_files stage anything, and only the owner publishes, so what  *)
(* an earlier attempt staged is in no later revision.                      *)
(***************************************************************************)
FreshStaging(h) ==
    [active |-> TRUE, base_revision |-> h, puts |-> EmptyManifest, deletes |-> {}]
StagedChanges == staging'.puts # staging.puts \/ staging'.deletes # staging.deletes
C7_BeginCommitStartsClean ==
    [][/\ \A c \in Clients :
            EndsOk(c, "begin_commit") => staging' = FreshStaging(head) /\ owner' = c
       /\ StagedChanges =>
            \E c \in Clients :
                \/ EndsOk(c, "begin_commit")
                \/ EndsOk(c, "commit")
                \/ /\ Ends(c) /\ req[c].op \in {"push_file", "delete_files"}
                   /\ owner = c /\ HeldBy(c)
       /\ \A c \in Clients :
            Publishes(c) => /\ owner = c
                            /\ commits'[head'].manifest = NewManifest(commits, staging)]_vars
C7_Witness ==
    \E c, d \in Clients :
        /\ c # d /\ owner = c /\ staging = FreshStaging(head)
        /\ resp[c].op = "begin_commit" /\ resp[c].status = "ok"
        /\ resp[d].op = "delete_files" /\ resp[d].status = "ok" /\ pc[d] = "idle"

(***************************************************************************)
(* C8 as stated: every push_file or delete_files request that reaches an   *)
(* active commit (flock taken, user lock valid for the session, staging    *)
(* active) has set the lock's expiry to now + 30 when it returns.          *)
(***************************************************************************)
Mutating(c) == req[c].op \in {"push_file", "delete_files"}
ReachedActiveCommit(c) ==
    /\ Mutating(c)
    /\ \/ pc[c] = "upload"
       \/ pc[c] = "callback" /\ ~lock_refused(c) /\ have_active_commit(staging)
C9_CommitReleases ==
    [][/\ \A c \in Clients :
            EndsOk(c, "commit")
            => /\ user_file' = EmptyUserFile
               /\ ~have_active_commit(staging')
               /\ \A d \in Clients : can_aquire_user_lock(user_file', HeaderToken(d), now')
       /\ \A d \in Clients :
            (/\ BeginCommitRuns(d)
             /\ user_file.kind = "empty"
             /\ req[d].previous_revision = head)
            => EndsOk(d, "begin_commit")]_vars
C9_Witness ==
    \E c, d \in Clients :
        /\ c # d /\ now = 0 /\ head = 0
        /\ resp[c].op = "commit" /\ resp[c].status = "ok"
        /\ resp[d].op = "begin_commit" /\ resp[d].status = "ok" /\ owner = d

(***************************************************************************)
(* C10 as stated: a begin_commit whose previous_revision is not head fails *)
(* with need_to_update and changes neither head, staging nor user_file.    *)
(***************************************************************************)
StaleBeginEnds(c) ==
    Ends(c) /\ req[c].op = "begin_commit" /\ req[c].previous_revision # head
C10_StaleBeginNeedsUpdate ==
    [][\A c \in Clients :
         StaleBeginEnds(c)
         => /\ EndsWith(c, need_to_update_msg)
            /\ UNCHANGED <<head, commits, staging, user_file>>]_vars

(***************************************************************************)
(* C10 as amended: such a begin_commit never succeeds and changes nothing; *)
(* its message is need_to_update when it got the flock and the user lock   *)
(* was acquirable, and lock_fail when one of these earlier checks failed.  *)
(***************************************************************************)
C10_StaleBeginFails ==
    [][\A c \in Clients :
         StaleBeginEnds(c)
         => /\ UNCHANGED <<head, commits, staging, user_file>>
            /\ IF pc[c] = "callback" /\ can_aquire_user_lock(user_file, HeaderToken(c), now)
               THEN EndsWith(c, need_to_update_msg)
               ELSE EndsWith(c, lock_fail_msg)]_vars
C10_Witness ==
    \E c \in Clients :
        /\ resp[c].op = "begin_commit" /\ resp[c].msg = need_to_update_msg
        /\ head = 1 /\ user_file.kind = "empty"

(***************************************************************************)
(* C11: whenever no mutating handler holds the flock, the staging area is  *)
(* active exactly when a begin_commit has succeeded and no commit request, *)
(* in mode "commit" or rolling back, has succeeded since.                  *)
(***************************************************************************)
Quiescent == flock = NoClient
BegunNotEnded == owner # NoClient
C11_ActiveIffBegun ==
    /\ [](Quiescent => (have_active_commit(staging) <=> BegunNotEnded))
    /\ [][/\ \A c \in Clients : EndsOk(c, "begin_commit") => BegunNotEnded'
          /\ \A c \in Clients : EndsOk(c, "commit") => ~BegunNotEnded'
          /\ BegunNotEnded' # BegunNotEnded
               => \E c \in Clients : EndsOk(c, "begin_commit") \/ EndsOk(c, "commit")]_vars
C11_Witness ==
    \E c, d \in Clients :
        /\ c # d /\ Quiescent /\ have_active_commit(staging) /\ owner = d
        /\ resp[c].op = "commit" /\ resp[c].status = "ok" /\ head = 1
        /\ resp[d].op = "begin_commit" /\ resp[d].status = "ok"

(***************************************************************************)
(* C12 as stated: a push_file, delete_files or commit request of an        *)
(* authenticated session that runs under the flock while no commit is      *)
(* started (staging not active) fails with no_active_commit.               *)
(***************************************************************************)
NeedsCommit(c) == req[c].op \in {"push_file", "delete_files", "commit"}
C12_NoCommitStarted ==
    [][\A c \in Clients :
         (/\ pc[c] = "callback" /\ NeedsCommit(c) /\ HandlerStep(c)
          /\ ~have_active_commit(staging))
         => EndsWith(c, no_active_commit_msg)]_vars

(***************************************************************************)
(* C15: a push_file whose path has a segment '.' or '..' never succeeds,   *)
(* never gets as far as reading its body and stages nothing; when it       *)
(* passes the lock and staging checks its failure has the empty message;   *)
(* and no staging area and no published manifest ever holds such a path.   *)
(***************************************************************************)
TraversalPush(c) == req[c].op = "push_file" /\ req[c].path \in BadPaths
C15_TraversalNeverStaged ==
    /\ [](\A p \in BadPaths :
            /\ staging.puts[p] = NoContent
            /\ \A i \in 1..Len(commits) : commits[i].manifest[p] = NoContent)
    /\ [][\A c \in Clients :
            TraversalPush(c) /\ HandlerStep(c)
            => /\ pc'[c] # "upload"
               /\ UNCHANGED <<staging, commits, head, user_file>>
               /\ Ends(c) => resp'[c].status = "fail"
               /\ (/\ pc[c] = "callback"
                   /\ ~lock_refused(c)
                   /\ have_active_commit(staging)) => EndsWith(c, "")]_vars
C15_Witness ==
    \E c \in Clients :
        /\ resp[c].op = "push_file" /\ resp[c].status = "fail" /\ resp[c].msg = ""
        /\ HeldBy(c) /\ have_active_commit(staging)
        /\ staging.deletes # {}

(***************************************************************************)
(* C14: push_file, delete_files and commit answer with the first check     *)
(* that fails, in the order session (user_auth_fail), flock (lock_fail),   *)
(* user lock (lock_fail), staging active (no_active_commit), path (empty   *)
(* message, push_file only); a request that fails a check changes neither  *)
(* head, the commits nor the staged puts and deletes.                      *)
(***************************************************************************)
LockValidFor(c) == HeldBy(c) /\ now < user_file.expires
FirstFailure(c) ==
    IF ~LockValidFor(c) THEN lock_fail_msg
    ELSE IF ~have_active_commit(staging) THEN no_active_commit_msg
    ELSE IF req[c].op = "push_file" /\ req[c].path \in BadPaths THEN ""
    ELSE "none"
RefusedOnArrival(c) == pc[c] = "idle" /\ pc'[c] = "idle" /\ resp'[c] # resp[c]
C14_FirstFailingCheck ==
    [][\A c \in Clients :
         /\ RefusedOnArrival(c)
              => /\ resp'[c].status = "fail" /\ resp'[c].msg = user_auth_fail_msg
                 /\ UNCHANGED <<head, commits, staging, user_file, flock>>
         /\ pc[c] = "lock_access" /\ NeedsCommit(c) /\ HandlerStep(c)
              => IF flock # NoClient
                 THEN /\ EndsWith(c, lock_fail_msg)
                      /\ UNCHANGED <<head, commits, staging, user_file, flock>>
                 ELSE pc'[c] = "callback" /\ flock' = c
         /\ pc[c] = "callback" /\ NeedsCommit(c) /\ HandlerStep(c)
              => IF FirstFailure(c) # "none"
                 THEN /\ EndsWith(c, FirstFailure(c))
                      /\ UNCHANGED <<head, commits, staging, user_file>>
                 ELSE \/ pc'[c] = "upload"
                      \/ Ends(c) /\ resp'[c].msg # no_active_commit_msg]_vars
C14_Witness ==
    \E c \in Clients :
        /\ resp[c].op = "commit" /\ resp[c].msg = user_auth_fail_msg
        /\ LockValidFor(c) /\ have_active_commit(staging)
        /\ staging.deletes # {}

(***************************************************************************)
(* C13 as stated: every endpoint called with a repository name that is not *)
(* in the configuration fails with no_such_repo.                           *)
(***************************************************************************)
UnknownRepositoryAsked ==
    exchange.op # "none" /\ exchange.repository \notin config.repositories
AuthEndpoints == {"begin_auth", "authenticate"}
RequestStep == now' = now /\ pending' = pending /\ minted' = minted
SessionPresented ==
    /\ exchange'.session_token # None
    /\ \/ exchange'.op \in NonAuthEndpoints
       \/ exchange'.op = "authenticate"
ElsewhereRow(r) ==
    /\ exchange'.repository \in config.repositories
    /\ r \in session_tokens[exchange'.repository]
    /\ encode(exchange'.session_token) = r.token
    /\ r.ip # exchange'.ip
RefusedUser == exchange'.status = "fail" /\ exchange'.msg = user_auth_fail_msg

MintedFrom(auth_token) == {i \in 1..Len(minted) : minted[i] = auth_token}
Mints == minted' # minted
C17_ChallengeMintsOnce ==
    /\ [](\A auth_token \in AuthTokens : Cardinality(MintedFrom(auth_token)) <= 1)
    /\ [][Mints
          => /\ exchange'.op = "authenticate" /\ exchange'.status = "ok"
             /\ \A q \in config.repositories :
                   \A r \in tokens'[q] : r.token # exchange'.auth_token
             /\ MintedFrom(exchange'.auth_token) = {}]_vars

(***************************************************************************)
(* C18: begin_auth at time t stores the challenge with expires = t + 30    *)
(* and the caller's address; authenticate accepts a challenge only when    *)
(* its row is there for the caller's address and now <= expires; a request *)
(* that presents it later or from another address fails and leaves the     *)
(* session table as it was; and a session token appears in the table only  *)
(* when an accepted request mints it.                                      *)
(***************************************************************************)
Accepted(th) == pending[th] = NoPending /\ pending'[th] # NoPending
SessionTokensOf(rows) == {r.token : r \in rows}
C18_ChallengeWindow ==
    [][/\ issued' # issued
            => /\ exchange'.op = "begin_auth" /\ exchange'.status = "ok"
               /\ ChallengeRow(exchange'.granted, now + challenge_duration, exchange'.ip)
                     \in tokens'[exchange'.repository]
       /\ \A th \in Threads :
            Accepted(th)
            => \E r \in tokens[pending'[th].repository] :
                  /\ r.token = pending'[th].auth_token
                  /\ r.ip = pending'[th].ip
                  /\ now <= r.expires
       /\ \A q \in config.repositories : \A r \in tokens[q] :
            (/\ RequestStep /\ exchange'.op = "authenticate"
             /\ exchange'.repository = q /\ exchange'.auth_token = r.token
             /\ (r.expires < now \/ r.ip # exchange'.ip))
            => /\ RefusedUser
               /\ session_tokens' = session_tokens
       /\ \A q \in config.repositories :
            ~(SessionTokensOf(session_tokens'[q]) \subseteq SessionTokensOf(session_tokens[q]))
            => /\ Mints
               /\ \E th \in Threads : pending[th] # NoPending /\ pending'[th] = NoPending]_vars
C18_Witness ==
    /\ now = challenge_duration
    /\ exchange.op = "authenticate" /\ exchange.status = "fail"
    /\ exchange.msg = user_auth_fail_msg
    /\ minted = <<>>
    /\ \E r \in tokens[Repository] :
          /\ exchange.repository = Repository
          /\ r.token = exchange.auth_token /\ r.ip # exchange.ip
          /\ r.expires = challenge_duration

(***************************************************************************)
(* C19: every session row of repository R belongs to a user whose          *)
(* uses_repositories contains R, authenticate accepts a request for R only *)
(* from such a user, and a request for R that have_authenticated_user      *)
(* accepts is accepted for such a user.                                    *)
(***************************************************************************)
Listed(user, repository) ==
    user \in DOMAIN config.users /\ repository \in config.users[user].uses_repositories
C19_OnlyListedRepositories ==
    /\ [](\A q \in config.repositories : \A r \in session_tokens[q] : Listed(r.username, q))
    /\ [][/\ \A th \in Threads :
               Accepted(th) => Listed(pending'[th].user, pending'[th].repository)
          /\ RequestStep /\ exchange'.status = "accepted"
               => Listed(exchange'.user, exchange'.repository)]_vars
C19_Witness ==
    /\ exchange.op = "authenticate" /\ exchange.status = "fail"
    /\ exchange.repository = OtherRepository
    /\ session_tokens[OtherRepository] = {}
    /\ \E r \in tokens[OtherRepository] :
          r.token = exchange.auth_token /\ r.ip = exchange.ip /\ ~(r.expires < now)
    /\ exchange.user = UserName

(***************************************************************************)
(* C20: a request accepted by have_authenticated_user leaves the row of    *)
(* its session with expires = now + 2 h; a row's expiry is moved by        *)
(* nothing else; a request is accepted only on a row that has not expired; *)
(* and a request of a non-auth endpoint whose session row has expired      *)
(* (more than 2 h since it was minted or last accepted) is refused and     *)
(* the row deleted, the holder of the user lock included.                  *)
(***************************************************************************)
AcceptedRequest == RequestStep /\ exchange'.status = "accepted"
RowOf(rows, x) == {r \in rows : r.token = x.session_token /\ r.ip = x.ip}
HoldsUserLock(r) == user_file.kind = "record" /\ decode(r.token) = user_file.session_token
C21_LockHolderRowSpared ==
    [][RequestStep /\ exchange'.op \in NonAuthEndpoints /\ exchange'.repository = Repository
       => \A r \in session_tokens[Repository] :
             HoldsUserLock(r)
             => \E k \in session_tokens'[Repository] : k.token = r.token]_vars

(***************************************************************************)
(* C22 as stated: authenticate with a session_token header succeeds if     *)
(* and only if session_tokens holds a row with that token and the caller's *)
(* address that has not expired; on success it returns the token that was  *)
(* presented and adds no session row.                                      *)
(***************************************************************************)
ResumeAnswered ==
    /\ RequestStep /\ exchange'.op = "authenticate" /\ exchange'.session_token # None
    /\ exchange'.repository \in config.repositories
LiveRowPresented ==
    \E r \in session_tokens[exchange'.repository] :
        /\ encode(exchange'.session_token) = r.token
        /\ r.ip = exchange'.ip
        /\ ~(r.expires < now)
C22_ResumeIffLiveRow ==
    [][ResumeAnswered
       => /\ exchange'.status = "ok" <=> LiveRowPresented
          /\ exchange'.status = "ok"
               => /\ exchange'.granted = exchange'.session_token
                  /\ session_tokens'[exchange'.repository]
                        \subseteq session_tokens[exchange'.repository]]_vars

(***************************************************************************)
(* C23: for a known repository, an authenticate request for a new session  *)
(* that is refused (unknown user, bad signature, unknown or expired        *)
(* challenge, challenge of another address, user without access) gets the  *)
(* same answer whatever the cause: status fail, msg user_auth_fail, no     *)
(* session token; it creates no session row and leaves the challenge       *)
(* table as its garbage collection left it.                                *)
(***************************************************************************)
NewSessionRefused ==
    /\ RequestStep /\ exchange'.op = "authenticate" /\ exchange'.session_token = None
    /\ exchange'.repository \in config.repositories
C23_OpaqueFailure ==
    [][NewSessionRefused
       => /\ exchange'.status = "fail"
          /\ exchange'.msg = "Could not authenticate user"
          /\ exchange'.granted = None
          /\ session_tokens' = session_tokens
          /\ tokens' = [tokens EXCEPT ![exchange'.repository] = gc_tokens(@, now)]]_vars
C23_Witness ==
    /\ exchange.op = "authenticate" /\ exchange.status = "fail"
    /\ exchange.msg = "Could not authenticate user"
    /\ exchange.repository = Repository /\ exchange.user = UserName
    /\ \E r \in tokens[Repository] :
          r.token = exchange.auth_token /\ r.ip = exchange.ip /\ ~(r.expires < now)

(***************************************************************************)
(* C25: at most one lock_access callback runs at any instant, and it is    *)
(* the one of the handler that holds the flock; a mutating request that    *)
(* finds the flock held fails in that same step with lock_fail and changes *)
(* nothing; and head, the revisions, the staging area and the user lock    *)
(* are written only by the handler that holds the flock, so the callbacks  *)
(* take effect one after the other.                                        *)
(***************************************************************************)
InBody(c) == pc[c] \in {"callback", "upload"}
Shared == <<head, commits, staging, user_file>>
C25_OneWriterAtATime ==
    /\ [](\A c, d \in Clients : InBody(c) /\ InBody(d) => c = d)
    /\ [](\A c \in Clients : InBody(c) <=> flock = c)
    /\ [][/\ \A c \in Clients :
               pc[c] = "lock_access" /\ flock # NoClient /\ pc'[c] # pc[c]
               => EndsWith(c, lock_fail_msg) /\ UNCHANGED Shared
          /\ Shared' # Shared
               => \E c \in Clients : flock = c /\ InBody(c) /\ pc'[c] # pc[c]]_vars
C25_Witness ==
    \E c, d \in Clients :
        /\ c # d /\ flock = c /\ pc[c] = "upload"
        /\ pc[d] = "idle" /\ resp[d].status = "fail" /\ resp[d].msg = lock_fail_msg
        /\ resp[d].op = "commit"
        /\ user_file.kind = "record" /\ user_file.expires < now

(***************************************************************************)
(* C24: a request to find_changed, pull_file, list_versions, list_changes  *)
(* or list_files takes neither the flock nor the user lock: it is answered *)
(* whoever holds them, also while another session's commit is in flight,   *)
(* never with a failure, and it leaves the flock, the user lock, head, the *)
(* revisions and the staging area as they were.  What it reports is read   *)
(* from published revisions only: find_changed and pull_file answer from   *)
(* head, list_versions starts its chain at head, and no entry names a      *)
(* revision that is not published.  (pull_file of a path head does not     *)
(* hold ends without a response, locks or no locks.)                       *)
(***************************************************************************)
ReadAnswered(c) ==
    /\ pc[c] = "idle" /\ pc'[c] = "idle"
    /\ resp'[c] # resp[c] /\ resp'[c].op \in ReadEndpoints
FromPublished(a) ==
    /\ \A i \in 1..Len(a.body) : a.body[i].rev \in 1..Len(commits)
    /\ a.op \in {"find_changed", "pull_file"} =>
          \A i \in 1..Len(a.body) : a.body[i].rev = head
    /\ a.op = "find_changed" => a.head = head
    /\ a.op = "list_versions" =>
          /\ Len(a.body) = head
          /\ \A i \in 1..Len(a.body) : a.body[i].rev = head + 1 - i
C24_ReadsTakeNoLock ==
    [][\A c \in Clients :
          ReadAnswered(c) =>
             /\ UNCHANGED <<flock, user_file, head, commits, staging>>
             /\ resp'[c].status # "fail"
             /\ resp'[c].status = "error" => resp'[c].op = "pull_file"
             /\ resp'[c].status = "ok" => FromPublished(resp'[c])]_vars
C24_Witness ==
    \E w \in Writers, c \in Readers :
        /\ flock = w /\ pc[w] = "callback"
        /\ req[w].op = "commit" /\ req[w].mode = "commit"
        /\ HeldBy(w) /\ have_active_commit(staging) /\ staging.deletes # {}
        /\ head = 1
        /\ resp[c].status = "ok" /\ resp[c].op = "pull_file"
        /\ resp[c].body[1].rev = head

(***************************************************************************)
(* C26: the flock is held only while a callback runs.  A mutating handler  *)
(* that ends after it entered its callback has released it, however it     *)
(* ends: with success, with a failure it returns, with the lock_fail that  *)
(* answers an IOError, or with an exception nothing catches.  So a request *)
(* that arrives at lock_access while no callback runs is never refused: it *)
(* enters its callback.                                                    *)
(***************************************************************************)
C26_FlockReleasedOnEveryPath ==
    /\ [](flock # NoClient => InBody(flock))
    /\ [][\A c \in Clients :
            /\ Ends(c) /\ InBody(c) => flock' = NoClient
            /\ pc[c] = "lock_access" /\ pc'[c] # pc[c] /\ (\A d \in Clients : ~InBody(d))
                 => pc'[c] = "callback" /\ flock' = c]_vars
C26_Witness ==
    \E c \in Clients :
        /\ pc[c] = "idle" /\ resp[c].status = "error" /\ resp[c].op = "commit"
        /\ flock = NoClient
        /\ HeldBy(c) /\ have_active_commit(staging) /\ staging.deletes # {}

(***************************************************************************)
(* C27 as stated: a response with msg 'Could not acquire exclusive lock'   *)
(* is returned only when the flock is held by another handler or the user  *)
(* lock is owned by a different session whose record has not expired.      *)
(***************************************************************************)
FlockContended(c) == pc[c] = "lock_access" /\ flock \notin {NoClient, c}
StorageAtWork(c) ==
    \/ pc[c] = "upload"
    \/ /\ pc[c] = "callback" /\ req[c].op = "commit" /\ req[c].mode = "commit"
       /\ LockValidFor(c) /\ have_active_commit(staging)
ListingRequests ==
    {r \in ListVersionsRequests \cup ListFilesRequests : r.version_id <= Len(commits)}
ListingsUnchanged ==
    /\ head' = head /\ commits' = commits
    /\ \A r \in ListingRequests : read_answer(r)' = read_answer(r)
RollsBack(c) == EndsOk(c, "commit") /\ req[c].mode = "rollback"
C28_RollbackLeavesPublished ==
    [][/\ (\A c \in Clients : ~Publishes(c)) => ListingsUnchanged
       /\ \A c \in Clients : RollsBack(c) => ListingsUnchanged /\ staging' = IdleStaging]_vars
C28_Witness ==
    \E w \in Writers, c \in Readers :
        /\ pc[w] = "idle" /\ resp[w].status = "ok" /\ resp[w].op = "commit"
        /\ resp[w].head = 0
        /\ user_file = EmptyUserFile /\ staging = IdleStaging
        /\ head = 1 /\ Len(commits) = 1
        /\ resp[c] = read_answer([NoRequest EXCEPT !.op = "list_files", !.version_id = 1])
        /\ Len(resp[c].body) = 2

(***************************************************************************)
(* Answers of the read endpoints, as a client would get them now.          *)
(***************************************************************************)
pull_file(p) == read_answer([NoRequest EXCEPT !.op = "pull_file", !.path = p])
list_files(R) == read_answer([NoRequest EXCEPT !.op = "list_files", !.version_id = R])
list_changes(R) == read_answer([NoRequest EXCEPT !.op = "list_changes", !.version_id = R])
ContentOf(a) == IF a.status = "ok" /\ Len(a.body) = 1 THEN a.body[1].content ELSE NoContent
Lists(a, p) == a.status = "ok" /\ \E i \in 1..Len(a.body) : a.body[i].path = p
Reports(a, p, status) ==
    a.status = "ok" /\ \E i \in 1..Len(a.body) : a.body[i].path = p /\ a.body[i].status = status
VersionedPaths == GoodPaths \cup OtherPaths

(***************************************************************************)
(* C29 as stated: after begin_commit, a push_file(p, v) stages v at p (it  *)
(* passed the lock, staging and path checks and the storage raised no      *)
(* IOError, so it returns success); a successful commit makes pull_file(p) *)
(* return v for every staged p; and pull_file(p) keeps returning v until a *)
(* later commit replaces or deletes p.                                     *)
(***************************************************************************)
PushCompletes(c) == pc[c] = "upload" /\ Ends(c) /\ resp'[c].msg # lock_fail_msg
C29_PushedIsPulled ==
    [][/\ \A c \in Clients :
            PushCompletes(c) => /\ resp'[c].status = "ok"
                                /\ staging'.puts[req[c].path] = req[c].content
       /\ \A c \in Clients, p \in VersionedPaths :
            Publishes(c) /\ staging.puts[p] # NoContent
            => ContentOf(pull_file(p))' = staging.puts[p]
       /\ \A p \in VersionedPaths :
            \/ \E c \in Clients :
                  Publishes(c) /\ (staging.puts[p] # NoContent \/ p \in staging.deletes)
            \/ ContentOf(pull_file(p))' = ContentOf(pull_file(p))]_vars

(***************************************************************************)
(* C30: when a commit publishes after a delete_files([p]) for a path p     *)
(* that head holds, list_files of the new head does not list p and         *)
(* list_changes of the new head reports p as 'deleted'; every path head    *)
(* holds that the commit did not touch is still listed by list_files of    *)
(* the new head and is not among its changes.                              *)
(***************************************************************************)
AtHead(p) == ManifestOf(commits, head)[p] # NoContent
C30_DeletedIsOmitted ==
    [][\A c \in Clients, p \in VersionedPaths, new \in 1..ServeMaxRev :
          Publishes(c) /\ new = head' /\ AtHead(p)
          => /\ p \in staging.deletes
                  => /\ ~Lists(list_files(new), p)'
                     /\ Reports(list_changes(new), p, "deleted")'
             /\ p \notin staging.deletes /\ staging.puts[p] = NoContent
                  => /\ Lists(list_files(new), p)'
                     /\ \A i \in 1..Len(list_changes(new).body)' :
                           list_changes(new).body[i].path' # p]_vars
C30_Witness ==
    \E w \in Writers, c \in Readers, p \in GoodPaths, q \in OtherPaths :
        /\ head = 2 /\ commits[2].parent = 1
        /\ pc[w] = "idle" /\ resp[w].op = "commit" /\ resp[w].status = "ok" /\ resp[w].head = 2
        /\ commits[1].manifest[p] # NoContent /\ commits[2].manifest[p] = NoContent
        /\ commits[2].manifest[q] # NoContent
        /\ resp[c] = list_changes(2) /\ Reports(resp[c], p, "deleted")

(***************************************************************************)
(* find_changed requests the server can be sent now, and what their        *)
(* resolution records say.                                                 *)
(***************************************************************************)
Asked == {r \in MergeRequests : r.previous_revision <= Len(commits)}
ExactlyOneSide(rec) == rec.resolution_4 \in {JsonList(<<"client">>), JsonList(<<"server">>)}
CarriesMalformed(r) ==
    \E i \in 1..Len(r.conflict_resolutions) : ~ExactlyOneSide(r.conflict_resolutions[i])
Carries(r, p, side) ==
    \E i \in 1..Len(r.conflict_resolutions) :
        r.conflict_resolutions[i] = ResolutionRecord(p, JsonList(<<side>>))

(***************************************************************************)
(* C31 as stated: find_changed with a conflict_resolutions list in which   *)
(* some record's 4_resolution is not exactly ['client'] or ['server']      *)
(* fails with msg 'Please resolve conflicts', returns no sorted_changes    *)
(* and changes no server state.                                            *)
(***************************************************************************)
C31_MalformedResolutionFails ==
    /\ [](\A r \in Asked : CarriesMalformed(r) => find_changed(r) = fail(r, conflict_msg))
    /\ [][\A c \in Clients :
            ReadAnswered(c) /\ resp'[c].msg = conflict_msg
            => UNCHANGED <<flock, user_file, head, commits, staging>>]_vars

(***************************************************************************)
(* C32: in a find_changed request all of whose resolution records are      *)
(* valid, on a repository that has a head, the change sets handed to the   *)
(* merge are the client's changes without every path resolved to 'server'  *)
(* and the server's changes without every path resolved to 'client'.  So   *)
(* no resolved path is on both sides of the merge, none is among the       *)
(* conflicts of the response, a path resolved to 'server' alone that the   *)
(* server changed is to be pulled, a path resolved to 'client' alone that  *)
(* the client changed is to be pushed, and the changes at paths without a  *)
(* resolution reach the merge as they were.                                *)
(***************************************************************************)
ServerChanges(r) == get_changes_since(commits, r.previous_revision, head)
MergedClient(r) == resolve_client_changes(r.conflict_resolutions, r.client_changes)
MergedServer(r) == resolve_server_changes(r.conflict_resolutions, ServerChanges(r))
EntriesAt(changes, p) == {changes[i] : i \in {j \in 1..Len(changes) : changes[j].path = p}}
Resolved(r, p) == Carries(r, p, "client") \/ Carries(r, p, "server")
C32_LosingSideRemoved ==
    \A r \in Asked :
        head # 0 /\ ~CarriesMalformed(r) =>
        /\ find_changed(r) =
              Sorted(r, head, merge_client_and_server_changes(MergedServer(r), MergedClient(r)))
        /\ \A p \in VersionedPaths :
              /\ Carries(r, p, "server") => p \notin ChangedPaths(MergedClient(r))
              /\ Carries(r, p, "client") => p \notin ChangedPaths(MergedServer(r))
              /\ Resolved(r, p) =>
                    /\ p \notin ChangedPaths(MergedClient(r)) \cap ChangedPaths(MergedServer(r))
                    /\ p \notin ChangedPaths(find_changed(r).sorted_changes.conflict)
              /\ Carries(r, p, "server") /\ ~Carries(r, p, "client")
                 /\ p \in ChangedPaths(ServerChanges(r))
                    => p \in ChangedPaths(find_changed(r).sorted_changes.pull)
              /\ Carries(r, p, "client") /\ ~Carries(r, p, "server")
                 /\ p \in ChangedPaths(r.client_changes)
                    => p \in ChangedPaths(find_changed(r).sorted_changes.push)
              /\ ~Resolved(r, p) =>
                    /\ EntriesAt(MergedClient(r), p) = EntriesAt(r.client_changes, p)
                    /\ EntriesAt(MergedServer(r), p) = EntriesAt(ServerChanges(r), p)
(* The client got the answer to a request that resolves to 'server' a path *)
(* both sides changed and leaves open a path both sides changed: the first *)
(* is to be pulled, the second is the one conflict.                        *)
C32_Witness ==
    \E c \in MergeClients, r \in Asked, p \in GoodPaths, q \in OtherPaths :
        /\ head = 1 /\ r.previous_revision = 0
        /\ r.client_changes = <<Entry(p, "changed", NoContent, 0), Entry(q, "changed", NoContent, 0)>>
        /\ r.conflict_resolutions = <<ResolutionRecord(p, JsonList(<<"server">>))>>
        /\ resp[c] = find_changed(r)
        /\ resp[c].status = "ok"
        /\ ChangedPaths(resp[c].sorted_changes.pull) = {p}
        /\ ChangedPaths(resp[c].sorted_changes.conflict) = {q}
        /\ resp[c].sorted_changes.push = <<>>

(***************************************************************************)
(* C33: user_file and new_user_file change only in steps of the handler    *)
(* that holds the flock and is in its callback.  user_file changes in one  *)
(* step, the one in which that callback returns success, from what it held *)
(* to the complete content the callback wrote (the caller's record, or     *)
(* nothing for a commit); so whenever have_authenticated_user reads it, it *)
(* holds no file, a cleared file or a complete record, never a part of one.*)
(***************************************************************************)
InCallback(c) == flock = c /\ pc[c] = "callback"
C33_UserFileReplacedAtomically ==
    /\ [](user_file.kind \in {"absent", "empty", "record"})
    /\ [][/\ user_file' # user_file \/ new_user_file' # new_user_file
               => \E c \in Clients : InCallback(c)
          /\ user_file' # user_file
               => \E c \in Clients :
                     /\ InCallback(c) /\ EndsOk(c, req[c].op)
                     /\ user_file' = written_by(c)]_vars
(* The prologue of d's request has just read user_file, the complete       *)
(* record of c, while c's delete_files has written the first part of the   *)
(* refreshed record.                                                       *)
C33_Witness ==
    \E c, d \in Clients :
        /\ c # d /\ InCallback(c) /\ req[c].op = "delete_files"
        /\ new_user_file = PartialUserFile
        /\ user_file = LockRecordOf(c, 0) /\ now > 0
        /\ pc[d] = "lock_access"

(***************************************************************************)
(* C34: whenever no mutating handler is in its callback, user_file holds a *)
(* session record, expired or not, exactly when the staging area is        *)
(* active: begin_commit writes the record as it begins staging, commit     *)
(* clears it as it publishes or rolls back, and every request that fails   *)
(* or ends in an exception leaves both as they were.                       *)
(***************************************************************************)
HoldsRecord == user_file.kind = "record"
C34_RecordIffStagingActive ==
    /\ [](Quiescent => (HoldsRecord <=> have_active_commit(staging)))
    /\ [][\A c \in Clients :
            Ends(c) /\ resp'[c].status # "ok"
            => HoldsRecord' = HoldsRecord
               /\ have_active_commit(staging)' = have_active_commit(staging)]_vars
(* The record has expired and nobody took the lock over: staging is still  *)
(* active after a delete_files that succeeded and a commit that came late. *)
C34_Witness ==
    \E c \in Clients :
        /\ Quiescent /\ \A d \in Clients : pc[d] = "idle"
        /\ HoldsRecord /\ user_file.expires < now
        /\ have_active_commit(staging) /\ staging.deletes # {}
        /\ resp[c].op = "commit" /\ resp[c].msg = lock_fail_msg

(***************************************************************************)
(* C35 as stated: at every time, a record in user_file is valid for its    *)
(* holder (varify_user_lock is true for the holder's token) or can be      *)
(* acquired by another session (can_aquire_user_lock is true for a token   *)
(* that is not the holder's), the time now = expires included.             *)
(***************************************************************************)
ValidForHolder ==
    \E c \in Clients : HeldBy(c) /\ varify_user_lock(user_file, HeaderToken(c), now)
AcquirableByOther ==
    \E d \in Clients : ~HeldBy(d) /\ can_aquire_user_lock(user_file, HeaderToken(d), now)
C35_NoDeadInstant ==
    user_file.kind = "record" => ValidForHolder \/ AcquirableByOther

(***************************************************************************)
(* C36: a begin_commit takes the lock from another session only when that  *)
(* session's record has expired, and leaves the record and the staging     *)
(* area with the new holder.  From then on, and until its own begin_commit *)
(* succeeds, every push_file, delete_files and commit request of the       *)
(* previous holder that reaches a handler ends with lock_fail and changes  *)
(* neither head nor the revisions nor the staging area nor the lock record.*)
(***************************************************************************)
TakesOver(d, c) == c # d /\ EndsOk(d, "begin_commit") /\ HeldBy(c)
C36_PreviousHolderLockedOut ==
    [][/\ \A c, d \in Clients :
            TakesOver(d, c) => user_file.expires < now /\ owner' = d /\ HeldBy(d)'
       /\ \A c \in Clients :
            Ends(c) /\ req[c].op \in {"push_file", "delete_files", "commit"} /\ owner # c
            => /\ EndsWith(c, lock_fail_msg)
               /\ UNCHANGED <<head, commits, staging, user_file>>
       /\ \A c \in Clients : owner' = c /\ owner # c => EndsOk(c, "begin_commit")]_vars
(* The successor took the lock over, staged a delete of its own, and the   *)
(* commit of the previous holder has been refused.                         *)
C36_Witness ==
    /\ owner = Successor /\ HeldBy(Successor) /\ NotExpired
    /\ have_active_commit(staging) /\ staging.deletes # {}
    /\ pc[PreviousHolder] = "idle"
    /\ resp[PreviousHolder].op = "commit" /\ resp[PreviousHolder].msg = lock_fail_msg
    /\ resp[Successor].op = "delete_files" /\ resp[Successor].status = "ok"

(***************************************************************************)
(* C37 as stated: a request that presents a session token whose expiry     *)
(* has passed is refused by have_authenticated_user unless that token is   *)
(* the one recorded in the user lock file, in which case it is accepted;   *)
(* once the lock record has expired or been cleared, the request is        *)
(* refused whatever the token.                                             *)
(***************************************************************************)
SessionExpired(c) ==
    \A r \in session_tokens[Repository] :
        r.token = HeaderToken(c) /\ r.ip = IpOf(c) => r.expires < now
RecordedInUserLock(c) ==
    /\ user_file.kind = "record"
    /\ encode(user_file.session_token) = HeaderToken(c)
    /\ ~(user_file.expires < now)
Answered(c) == pc[c] = "idle" /\ (pc'[c] # "idle" \/ resp'[c] # resp[c])
PassesProlog(c) == pc[c] = "idle" /\ pc'[c] # "idle"
C37_ExpiredTokenRefused ==
    [][\A c \in Clients :
          Answered(c) /\ SessionExpired(c) => (PassesProlog(c) <=> RecordedInUserLock(c))]_vars
(* The half of C37 that does not depend on the exception. *)
C37_ExpiredNeverAccepted ==
    [][\A c \in Clients : Answered(c) /\ SessionExpired(c) => ~PassesProlog(c)]_vars

(***************************************************************************)
(* C38 as stated: a delete_files request that is answered with the         *)
(* empty-message failure, fs_delete having raised for some entry of its    *)
(* list, leaves none of its paths staged for deletion: the staging area is *)
(* as it was before the request.                                           *)
(***************************************************************************)
FailsPartWay(c) == Ends(c) /\ req[c].op = "delete_files" /\ EndsWith(c, "")
C38_DeleteFilesAllOrNothing ==
    [][\A c \in Clients : FailsPartWay(c) => staging' = staging]_vars
(* What holds instead: the entries before the failing one are staged, the  *)
(* failing one and those after it are not, and the lock is not refreshed.  *)
C38_StagedUpToFailure ==
    [][\A c \in Clients :
          FailsPartWay(c)
          => /\ \E done \in 0..(Len(req[c].files) - 1) :
                   staging' = fs_delete_all(staging, req[c].files, done)
             /\ UNCHANGED <<user_file, head, commits>>]_vars

(***************************************************************************)
(* C39 as stated: the chunks returned by successive calls of a read_body   *)
(* reader add up to body_length bytes, and to the request body itself,     *)
(* whatever chunk sizes are asked for and however many bytes recv returns; *)
(* have_read never passes body_length, so that the reader ends with None.  *)
(***************************************************************************)
C39_ChunksTotalBodyLength ==
    /\ request_body.have_read <= request_body.body_length
    /\ Len(request_body.tmp_file) <= request_body.body_length
    /\ request_body.returned_none
         => request_body.tmp_file = BodyBytes(request_body.body_length)
(* What holds instead: the reader ends after at most body_length calls,    *)
(* and what it returned is a prefix of the body.                           *)
C39_ReturnsPrefix ==
    /\ request_body.have_read <= request_body.body_length
    /\ request_body.tmp_file
          = SubSeq(BodyBytes(request_body.body_length), 1, Len(request_body.tmp_file))
    /\ Len(request_body.tmp_file) <= request_body.have_read

====
